---------------------------- MODULE Spec2Model ----------------------------
(***************************************************************************)
(* The global-illumination caches of pbrt-v2.                              *)
(*                                                                         *)
(*   Spec      DipoleSubsurfaceIntegrator::Preprocess: the parallel        *)
(*             PoissonPointTask workers, the irradiance pass and the       *)
(*             construction of the cluster hierarchy.                      *)
(*   FairSpec  Spec with the fairness of the task scheduler and of the     *)
(*             reader/writer mutex.                                        *)
(*   CacheSpec the irradiance cache under concurrent indirectLo queries.   *)
(*                                                                         *)
(* A Point is a triple, a Spectrum has one channel.  A float is an exact   *)
(* rational or one of the IEEE values Inf and NaN.                         *)
(***************************************************************************)
EXTENDS Integers, Sequences, FiniteSets, TLC

(***************************************************************************)
(* Bounds of the model                                                     *)
(***************************************************************************)
\* the largest number of candidates one batch of paths deposits
MaxCand == 2
\* Preprocess sets maxFails to 2000 (200 under PBRT_QUICK_RENDER)
maxFails == 2
\* a batch that deposits no candidate is started only while fewer than this
\* many batches have been counted in totalPathsTraced
MaxBatches == 4

(***************************************************************************)
(* Program values                                                          *)
(***************************************************************************)
\* int nTasks = NumSystemCores()
nTasks == 2
\* "pathsTraced < 20000" and "totalPathsTraced > 50000"
PathsPerBatch == 20000
GiveUpPaths == 50000
\* lengths are in units of half the minimum sample distance
minSampleDist == 2
\* M_PI rounded, so that the area of a point is an integer
M_PI == 3
\* larger than every coordinate of the model
INFINITY == 1000000

Workers == 1 .. nTasks
NoTask == 0

\* The scenes: the surface points whose material exposes a BSSRDF.  None; two
\* points closer than minSampleDist; two points exactly minSampleDist apart.
Scenes == {{}, {<<0, 0, 0>>, <<1, 0, 0>>}, {<<0, 0, 0>>, <<2, 0, 0>>}}
\* the irradiance the lights deliver to a point (0: unlit or occluded)
Irradiances == {0, 1, 3}
\* the shading points of the Mo queries
QueryPoints == {<<0, 0, 0>>, <<1, 0, 0>>, <<7, 0, 0>>}

VARIABLES
    bssrdfSurface,     \* the scene: the points whose material has a BSSRDF
    nLights,           \* scene->lights.size()
    prePc,             \* where Preprocess is
    mutex,             \* the RWMutex shared by the workers
    pc,                \* where each PoissonPointTask is in Run()
    candidates,        \* each worker's vector<IrradiancePoint> candidates
    candidateRejected, \* each worker's vector<bool> candidateRejected
    pointOctree,       \* Octree<IrradiancePoint> pointOctree
    irradiancePoints,  \* vector<IrradiancePoint> irradiancePoints
    repeatedFails, maxRepeatedFails,
    totalPathsTraced, numPointsAdded,
    warned,            \* Warning("There don't seem to be any objects ...")
    loopIndex,         \* the u_int i of the loops of Preprocess
    octree,            \* SubsurfaceOctreeNode *octree: path -> node
    octreeBounds,      \* BBox octreeBounds
    cacheMutex,        \* IrradianceCacheIntegrator::mutex
    cache,             \* IrradianceCacheIntegrator::octree
    destroyed,         \* ~IrradianceCacheIntegrator has run
    cpc,               \* where each rendering thread is in indirectLo
    query,             \* the arguments of the thread's call of indirectLo
    proc,              \* the IrradProcess of the thread's interpolateE
    sample,            \* the IrradianceSample the thread has allocated
    slot,              \* the octree entry the thread's Add is writing
    queryId,           \* which of CacheQueries the thread's call is
    issued, missed,    \* how often each query was started / missed the cache
    torn,              \* a visitor was handed an entry that was being written
    minWeight,         \* IrradianceCacheIntegrator::minWeight
    primePc,           \* where IrradianceCacheIntegrator::Preprocess is
    primeTasks,        \* each IrradiancePrimeTask: "queued", "running", "done"
    primeThread,       \* the IrradiancePrimeTask that each thread is running
    weightBefore,      \* minWeight when Preprocess was called
    spatialOctree,     \* an Octree<T>: its nodes and the payloads added
    lastLookup,        \* the last Lookup of spatialOctree and what it visited
    distribution,      \* a Distribution1D: func, cdf, funcInt, count
    lastSample,        \* the last SampleContinuous or SampleDiscrete of it
    stream,            \* the scramble[2] of an estimate and its Sample02 points
    shading,           \* the last call of DipoleSubsurfaceIntegrator::Li
    geometry,          \* what scene->Intersect and sphere.Intersect find
    trace,             \* each task's rng, ray and loop counters in Run()
    batches,           \* the candidates of each batch of each task, in order
    indirect           \* the locals of IrradianceCacheIntegrator::pathL

sceneVars == <<bssrdfSurface, nLights>>
taskVars == <<pc, candidates, candidateRejected>>
sharedVars == <<pointOctree, irradiancePoints, repeatedFails, maxRepeatedFails,
                totalPathsTraced, numPointsAdded, warned>>
clusterVars == <<loopIndex, octree, octreeBounds>>

dipoleVars == <<sceneVars, prePc, mutex, taskVars, sharedVars, clusterVars>>
threadVars == <<cpc, query, queryId, proc, sample, slot>>
historyVars == <<issued, missed, torn>>
primeVars == <<minWeight, primePc, primeTasks, primeThread, weightBefore>>
octreeVars == <<spatialOctree, lastLookup>>
cacheVars == <<cacheMutex, cache, destroyed, threadVars, historyVars, primeVars,
               octreeVars>>

coreVars == <<distribution, lastSample, stream, shading>>

traceVars == <<geometry, trace, batches, indirect>>

vars == <<dipoleVars, cacheVars, coreVars, traceVars>>

Max(a, b) == IF a >= b THEN a ELSE b
Min(a, b) == IF a <= b THEN a ELSE b
Abs(a) == IF a >= 0 THEN a ELSE -a

(***************************************************************************)
(* float: an exact rational n/d in lowest terms, d > 0, or Inf, or NaN.    *)
(* Only +Inf arises: every division by zero has a numerator >= 0.          *)
(***************************************************************************)
RECURSIVE GCD(_, _)
GCD(a, b) == IF b = 0 THEN a ELSE GCD(b, a % b)

Frac(n, d) ==
    LET g == GCD(Abs(n), d)
    IN [k |-> "fin", n |-> IF g = 0 THEN 0 ELSE n \div g,
                     d |-> IF g = 0 THEN 1 ELSE d \div g]
F(n) == Frac(n, 1)
NaN == [k |-> "nan", n |-> 0, d |-> 1]
Inf == [k |-> "inf", n |-> 0, d |-> 1]
IsNaN(a) == a.k = "nan"
IsZero(a) == a.k = "fin" /\ a.n = 0

FAdd(a, b) ==
    IF IsNaN(a) \/ IsNaN(b) THEN NaN
    ELSE IF a.k = "inf" \/ b.k = "inf" THEN Inf
    ELSE Frac(a.n * b.d + b.n * a.d, a.d * b.d)

FSub(a, b) ==
    IF IsNaN(a) \/ IsNaN(b) THEN NaN
    ELSE IF a.k = "inf" /\ b.k = "inf" THEN NaN
    ELSE IF a.k = "inf" \/ b.k = "inf" THEN Inf
    ELSE Frac(a.n * b.d - b.n * a.d, a.d * b.d)

FMul(a, b) ==
    IF IsNaN(a) \/ IsNaN(b) THEN NaN
    ELSE IF a.k = "inf" \/ b.k = "inf"
         THEN (IF IsZero(a) \/ IsZero(b) THEN NaN ELSE Inf)
    ELSE Frac(a.n * b.n, a.d * b.d)

FDiv(a, b) ==
    IF IsNaN(a) \/ IsNaN(b) THEN NaN
    ELSE IF b.k = "inf" THEN (IF a.k = "inf" THEN NaN ELSE F(0))
    ELSE IF a.k = "inf" THEN Inf
    ELSE IF b.n = 0 THEN (IF a.n = 0 THEN NaN ELSE Inf)
    ELSE IF b.n > 0 THEN Frac(a.n * b.d, a.d * b.n)
    ELSE Frac(-(a.n * b.d), a.d * (-b.n))

\* a < b; false when either is NaN
FLess(a, b) ==
    IF IsNaN(a) \/ IsNaN(b) THEN FALSE
    ELSE IF a.k = "inf" THEN FALSE
    ELSE IF b.k = "inf" THEN TRUE
    ELSE a.n * b.d < b.n * a.d

\* a > 0
FPositive(a) == FLess(F(0), a)

FPoint(p) == <<F(p[1]), F(p[2]), F(p[3])>>

(***************************************************************************)
(* Geometry                                                                *)
(***************************************************************************)
DistanceSquared(a, b) ==
    (a[1] - b[1]) * (a[1] - b[1]) + (a[2] - b[2]) * (a[2] - b[2])
        + (a[3] - b[3]) * (a[3] - b[3])

\* DistanceSquared of two points with float coordinates
FDistanceSquared(a, b) ==
    LET dx == FSub(a[1], b[1])
        dy == FSub(a[2], b[2])
        dz == FSub(a[3], b[3])
    IN FAdd(FAdd(FMul(dx, dx), FMul(dy, dy)), FMul(dz, dz))

\* A BBox has the corners pMin / den and pMax / den.  BBox() is the empty box.
EmptyBBox ==
    [pMin |-> <<INFINITY, INFINITY, INFINITY>>,
     pMax |-> <<-INFINITY, -INFINITY, -INFINITY>>, den |-> 1]

\* Union(const BBox &, const Point &)
UnionPoint(b, p) ==
    [b EXCEPT !.pMin = [k \in 1 .. 3 |-> Min(b.pMin[k], p[k] * b.den)],
              !.pMax = [k \in 1 .. 3 |-> Max(b.pMax[k], p[k] * b.den)]]

\* BBox::Inside
Inside(b, pt) ==
    \A k \in 1 .. 3 : b.pMin[k] <= pt[k] * b.den /\ pt[k] * b.den <= b.pMax[k]

\* BBox(ip.p - delta, ip.p + delta), delta = (minSampleDist, ...)
PointBound(p) ==
    [pMin |-> <<p[1] - minSampleDist, p[2] - minSampleDist, p[3] - minSampleDist>>,
     pMax |-> <<p[1] + minSampleDist, p[2] + minSampleDist, p[3] + minSampleDist>>,
     den |-> 1]

(***************************************************************************)
(* Octree<T>: the payloads with the region each was added with.  Lookup    *)
(* hands the visitor the payloads whose region contains the point.         *)
(***************************************************************************)
OctreeAdd(oct, data, bound) == Append(oct, [data |-> data, bound |-> bound])

OctreeLookup(oct, p) == {i \in 1 .. Len(oct) : Inside(oct[i].bound, p)}

(***************************************************************************)
(* RWMutex: any number of readers or one writer                            *)
(***************************************************************************)
CanAcquireRead(m) == m.writer = NoTask
CanAcquireWrite(m) == m.writer = NoTask /\ m.readers = {}
AcquireRead(m, t) == [m EXCEPT !.readers = @ \cup {t}]
ReleaseRead(m, t) == [m EXCEPT !.readers = @ \ {t}]
AcquireWrite(m, t) == [m EXCEPT !.writer = t]
ReleaseWrite(m, t) == [m EXCEPT !.writer = NoTask]
FreeMutex == [readers |-> {}, writer |-> NoTask]

\* the maxError of the Mo queries: none, the default .05, and a large one
MaxErrors == {F(0), Frac(1, 20), F(100)}

(***************************************************************************)
(* PoissonCheck                                                            *)
(***************************************************************************)
\* PoissonCheck::operator(): TRUE when ip makes the check fail
PoissonCheck(md, p, ip) == DistanceSquared(ip.p, p) < md * md

\* PoissonCheck check(minSampleDist, p); octree.Lookup(p, check); check.failed
CheckFailed(oct, p) ==
    \E i \in OctreeLookup(oct, p) : PoissonCheck(minSampleDist, p, oct[i].data)

RecheckSkipped(oct, p) == FALSE
\* the re-check of a candidate that passed the first pass, under the write lock
RecheckFailed(oct, p) == CheckFailed(oct, p)

\* the IrradiancePoint stored for a candidate at p
NewPoint(p) ==
    [p |-> p, E |-> 0, area |-> M_PI * minSampleDist * minSampleDist]

(***************************************************************************)
(* The second pass of PoissonPointTask::Run over candidates i .. n, on the *)
(* shared state st; st.returned is set by the return statements.           *)
(***************************************************************************)
RECURSIVE WriteLoop(_, _, _, _)
WriteLoop(i, cands, rej, st) ==
    IF i > Len(cands) THEN st
    ELSE IF rej[i] \/ RecheckFailed(st.oct, cands[i].p)
    THEN LET rf == st.rf + 1
             s1 == [st EXCEPT !.rf = rf, !.mrf = Max(st.mrf, rf)]
         IN IF rf >= maxFails THEN [s1 EXCEPT !.returned = TRUE]
            ELSE WriteLoop(i + 1, cands, rej, s1)
    ELSE WriteLoop(i + 1, cands, rej,
             [st EXCEPT !.npa = @ + 1, !.rf = 0,
                        !.oct = OctreeAdd(@, cands[i], PointBound(cands[i].p)),
                        !.ips = Append(@, cands[i])])

GivesUpAlways(tpt, npa) == tpt > GiveUpPaths
GivesUpReversed(tpt, npa) == tpt < GiveUpPaths /\ npa = 0
\* "if (totalPathsTraced > 50000 && numPointsAdded == 0)"
GivesUp(tpt, npa) == tpt > GiveUpPaths /\ npa = 0

SeqsUpTo(S, n) == UNION {[1 .. k -> S] : k \in 0 .. n}

(***************************************************************************)
(* PoissonPointTask::Run                                                   *)
(***************************************************************************)
\* the tasks have been handed to EnqueueTasks
Enqueued == nLights > 0 /\ prePc # "start"

\* The 20000 paths of one batch, traced without the lock.  A batch that
\* deposits no candidate is started only below the bound MaxBatches.
GenerateCandidates(w) ==
    /\ Enqueued
    /\ pc[w] = "trace"
    /\ \E ps \in SeqsUpTo(bssrdfSurface, MaxCand) :
          /\ Len(ps) > 0 \/ totalPathsTraced < PathsPerBatch * MaxBatches
          /\ candidates' = [candidates EXCEPT ![w] =
                               [k \in 1 .. Len(ps) |-> NewPoint(ps[k])]]
    /\ pc' = [pc EXCEPT ![w] = "readPass"]
    /\ UNCHANGED <<traceVars, coreVars, cacheVars, sceneVars, prePc, mutex, candidateRejected, sharedVars,
                   clusterVars>>

\* the first pass through the candidates without the lock
ReadPassUnlocked(w) ==
    /\ Enqueued
    /\ pc[w] = "readPass"
    /\ mutex' = mutex
    /\ candidateRejected' = [candidateRejected EXCEPT ![w] =
           [k \in 1 .. Len(candidates[w]) |->
               CheckFailed(pointOctree, candidates[w][k].p)]]
    /\ pc' = [pc EXCEPT ![w] = "upgrade"]
    /\ UNCHANGED <<traceVars, coreVars, cacheVars, sceneVars, prePc, candidates, sharedVars, clusterVars>>

\* RWMutexLock lock(mutex, READ) and the first pass through the candidates
ReadPass(w) ==
    /\ Enqueued
    /\ pc[w] = "readPass"
    /\ CanAcquireRead(mutex)
    /\ mutex' = AcquireRead(mutex, w)
    /\ candidateRejected' = [candidateRejected EXCEPT ![w] =
           [k \in 1 .. Len(candidates[w]) |->
               CheckFailed(pointOctree, candidates[w][k].p)]]
    /\ pc' = [pc EXCEPT ![w] = "upgrade"]
    /\ UNCHANGED <<traceVars, coreVars, cacheVars, sceneVars, prePc, candidates, sharedVars, clusterVars>>

\* RWMutexLock::UpgradeToWrite gives the read lock up ...
UpgradeToWriteRelease(m, w) == ReleaseRead(m, w)

UpgradeInPlace(w) ==
    /\ Enqueued
    /\ pc[w] = "upgrade"
    /\ pc' = [pc EXCEPT ![w] = "lockWrite"]
    /\ UNCHANGED <<traceVars, coreVars, cacheVars, sceneVars, prePc, mutex, candidates, candidateRejected,
                   sharedVars, clusterVars>>

\* lock.UpgradeToWrite(), first half
UpgradeRelease(w) ==
    /\ Enqueued
    /\ pc[w] = "upgrade"
    /\ mutex' = UpgradeToWriteRelease(mutex, w)
    /\ pc' = [pc EXCEPT ![w] = "lockWrite"]
    /\ UNCHANGED <<traceVars, coreVars, cacheVars, sceneVars, prePc, candidates, candidateRejected,
                   sharedVars, clusterVars>>

\* lock.UpgradeToWrite(), second half: ... and then takes the write lock
UpgradeAcquire(w) ==
    /\ Enqueued
    /\ pc[w] = "lockWrite"
    /\ CanAcquireWrite(mutex)
    /\ mutex' = AcquireWrite(mutex, w)
    /\ pc' = [pc EXCEPT ![w] = "writePass"]
    /\ UNCHANGED <<traceVars, coreVars, cacheVars, sceneVars, prePc, candidates, candidateRejected,
                   sharedVars, clusterVars>>

\* the second pass without the test that follows lock.UpgradeToWrite()
WritePassUnchecked(w) ==
    /\ Enqueued
    /\ pc[w] = "writePass"
    /\ IF FALSE
       THEN /\ pc' = [pc EXCEPT ![w] = "return"]
            /\ UNCHANGED sharedVars
       ELSE LET tpt == totalPathsTraced + PathsPerBatch
                st  == WriteLoop(1, candidates[w], candidateRejected[w],
                           [rf |-> repeatedFails, mrf |-> maxRepeatedFails,
                            npa |-> numPointsAdded, oct |-> pointOctree,
                            ips |-> irradiancePoints, returned |-> FALSE])
                giveUp == ~st.returned /\ GivesUp(tpt, st.npa)
            IN /\ totalPathsTraced' = tpt
               /\ repeatedFails' = st.rf
               /\ maxRepeatedFails' = st.mrf
               /\ numPointsAdded' = st.npa
               /\ pointOctree' = st.oct
               /\ irradiancePoints' = st.ips
               /\ warned' = (warned \/ giveUp)
               /\ pc' = [pc EXCEPT ![w] =
                      IF st.returned \/ giveUp THEN "return" ELSE "endLoop"]
    /\ candidates' = [candidates EXCEPT ![w] = <<>>]
    /\ candidateRejected' = [candidateRejected EXCEPT ![w] = <<>>]
    /\ UNCHANGED <<traceVars, coreVars, cacheVars, sceneVars, prePc, mutex, clusterVars>>

\* The second pass, up to a return or to the end of the loop body.  The
\* candidate vectors are erased at the end of the body, destroyed at a return.
WritePass(w) ==
    /\ Enqueued
    /\ pc[w] = "writePass"
    /\ IF repeatedFails >= maxFails
       THEN /\ pc' = [pc EXCEPT ![w] = "return"]
            /\ UNCHANGED sharedVars
       ELSE LET tpt == totalPathsTraced + PathsPerBatch
                st  == WriteLoop(1, candidates[w], candidateRejected[w],
                           [rf |-> repeatedFails, mrf |-> maxRepeatedFails,
                            npa |-> numPointsAdded, oct |-> pointOctree,
                            ips |-> irradiancePoints, returned |-> FALSE])
                giveUp == ~st.returned /\ GivesUp(tpt, st.npa)
            IN /\ totalPathsTraced' = tpt
               /\ repeatedFails' = st.rf
               /\ maxRepeatedFails' = st.mrf
               /\ numPointsAdded' = st.npa
               /\ pointOctree' = st.oct
               /\ irradiancePoints' = st.ips
               /\ warned' = (warned \/ giveUp)
               /\ pc' = [pc EXCEPT ![w] =
                      IF st.returned \/ giveUp THEN "return" ELSE "endLoop"]
    /\ candidates' = [candidates EXCEPT ![w] = <<>>]
    /\ candidateRejected' = [candidateRejected EXCEPT ![w] = <<>>]
    /\ UNCHANGED <<traceVars, coreVars, cacheVars, sceneVars, prePc, mutex, clusterVars>>

UnlockAtReturnOnly(w) ==
    /\ Enqueued
    /\ pc[w] \in {"return", "endLoop"}
    /\ mutex' = IF pc[w] = "return" THEN ReleaseWrite(mutex, w) ELSE mutex
    /\ pc' = [pc EXCEPT ![w] = IF pc[w] = "return" THEN "done" ELSE "trace"]
    /\ UNCHANGED <<traceVars, coreVars, cacheVars, sceneVars, prePc, candidates, candidateRejected,
                   sharedVars, clusterVars>>

\* ~RWMutexLock at the end of the loop body or at a return
Unlock(w) ==
    /\ Enqueued
    /\ pc[w] \in {"return", "endLoop"}
    /\ mutex' = ReleaseWrite(mutex, w)
    /\ pc' = [pc EXCEPT ![w] = IF pc[w] = "return" THEN "done" ELSE "trace"]
    /\ UNCHANGED <<traceVars, coreVars, cacheVars, sceneVars, prePc, candidates, candidateRejected,
                   sharedVars, clusterVars>>

Run(w) ==
    \/ GenerateCandidates(w)
    \/ ReadPass(w)
    \/ UpgradeRelease(w)
    \/ UpgradeAcquire(w)
    \/ WritePass(w)
    \/ Unlock(w)

(***************************************************************************)
(* SubsurfaceOctreeNode.  The tree is a function from the path of a node   *)
(* (the child indices from the root) to the node; NULL is the empty tree.  *)
(* ips holds indices into irradiancePoints, the non-null slots of ips[8].  *)
(***************************************************************************)
NullTree == <<>>
RootPath == <<>>

\* a node whose sumArea does not start at zero
NewNodeWithArea ==
    [p |-> FPoint(<<0, 0, 0>>), isLeaf |-> TRUE, E |-> F(0), sumArea |-> F(1),
     ips |-> <<>>, children |-> {}]

\* SubsurfaceOctreeNode::SubsurfaceOctreeNode
NewNode ==
    [p |-> FPoint(<<0, 0, 0>>), isLeaf |-> TRUE, E |-> F(0), sumArea |-> F(0),
     ips |-> <<>>, children |-> {}]

\* the octant with a point on the midplane counted to the upper side
ChildIndexNotBelow(b, p) ==
    (IF 2 * b.den * p[1] >= b.pMin[1] + b.pMax[1] THEN 4 ELSE 0)
        + (IF 2 * b.den * p[2] >= b.pMin[2] + b.pMax[2] THEN 2 ELSE 0)
        + (IF 2 * b.den * p[3] >= b.pMin[3] + b.pMax[3] THEN 1 ELSE 0)

\* (ip->p.x > pMid.x ? 4 : 0) + (ip->p.y > pMid.y ? 2 : 0) + (ip->p.z > pMid.z ? 1 : 0)
ChildIndex(b, p) ==
    (IF 2 * b.den * p[1] > b.pMin[1] + b.pMax[1] THEN 4 ELSE 0)
        + (IF 2 * b.den * p[2] > b.pMin[2] + b.pMax[2] THEN 2 ELSE 0)
        + (IF 2 * b.den * p[3] > b.pMin[3] + b.pMax[3] THEN 1 ELSE 0)

\* octreeChildBound: the octant of nodeBound on the child's side of pMid
octreeChildBound(child, b) ==
    LET upper == <<(child \div 4) % 2 = 1, (child \div 2) % 2 = 1, child % 2 = 1>>
    IN [pMin |-> [k \in 1 .. 3 |->
                     IF upper[k] THEN b.pMin[k] + b.pMax[k] ELSE 2 * b.pMin[k]],
        pMax |-> [k \in 1 .. 3 |->
                     IF upper[k] THEN 2 * b.pMax[k] ELSE b.pMin[k] + b.pMax[k]],
        den |-> 2 * b.den]

RECURSIVE Insert(_, _, _, _, _)
RECURSIVE InsertInterior(_, _, _, _, _)
RECURSIVE Redistribute(_, _, _, _, _, _)

\* SubsurfaceOctreeNode::Insert, the interior case
InsertInterior(tree, path, nodeBound, ip, pts) ==
    LET child == ChildIndex(nodeBound, pts[ip].p)
        cpath == Append(path, child)
        t1 == IF child \in tree[path].children THEN tree
              ELSE [tree EXCEPT ![path].children = @ \cup {child}]
                       @@ (cpath :> NewNode)
    IN Insert(t1, cpath, octreeChildBound(child, nodeBound), ip, pts)

\* the redistribution of localIps[k ..] of a leaf turned interior
Redistribute(tree, path, nodeBound, localIps, k, pts) ==
    IF k > Len(localIps) THEN tree
    ELSE Redistribute(InsertInterior(tree, path, nodeBound, localIps[k], pts),
                      path, nodeBound, localIps, k + 1, pts)

\* Insert with leaves that are split at their second point
InsertSplitsEarly(tree, path, nodeBound, ip, pts) ==
    LET node == tree[path]
    IN IF node.isLeaf /\ Len(node.ips) < 1
       THEN [tree EXCEPT ![path].ips = Append(@, ip)]
       ELSE IF node.isLeaf
       THEN InsertInterior(
                Redistribute([tree EXCEPT ![path].isLeaf = FALSE,
                                          ![path].ips = <<>>,
                                          ![path].children = {}],
                             path, nodeBound, node.ips, 1, pts),
                path, nodeBound, ip, pts)
       ELSE InsertInterior(tree, path, nodeBound, ip, pts)

\* SubsurfaceOctreeNode::Insert
Insert(tree, path, nodeBound, ip, pts) ==
    LET node == tree[path]
    IN IF node.isLeaf /\ Len(node.ips) < 8
       THEN [tree EXCEPT ![path].ips = Append(@, ip)]
       ELSE IF node.isLeaf
       THEN InsertInterior(
                Redistribute([tree EXCEPT ![path].isLeaf = FALSE,
                                          ![path].ips = <<>>,
                                          ![path].children = {}],
                             path, nodeBound, node.ips, 1, pts),
                path, nodeBound, ip, pts)
       ELSE InsertInterior(tree, path, nodeBound, ip, pts)

\* p += wt * q
AddWeighted(p, wt, q) == [k \in 1 .. 3 |-> FAdd(p[k], FMul(wt, q[k]))]

RECURSIVE LeafSums(_, _, _, _)
\* the loop over ips[i] of a leaf: E, p, sumWt and sumArea from slot k on
LeafSums(acc, ips, k, pts) ==
    IF k > Len(ips) THEN acc
    ELSE LET ip == pts[ips[k]]
             wt == F(ip.E)
         IN LeafSums([E |-> FAdd(acc.E, F(ip.E)),
                      p |-> AddWeighted(acc.p, wt, FPoint(ip.p)),
                      sumWt |-> FAdd(acc.sumWt, wt),
                      sumArea |-> FAdd(acc.sumArea, F(ip.area))],
                     ips, k + 1, pts)

RECURSIVE InitHierarchy(_, _, _)
RECURSIVE InteriorSums(_, _, _, _)
\* the loop over children[i] of an interior node, from child k on; acc.tree
\* is the tree with the children visited so far initialised
InteriorSums(acc, path, k, pts) ==
    IF k > 7 THEN acc
    ELSE IF k \notin acc.tree[path].children
    THEN InteriorSums(acc, path, k + 1, pts)
    ELSE LET t1 == InitHierarchy(acc.tree, Append(path, k), pts)
             c  == t1[Append(path, k)]
             wt == c.E
         IN InteriorSums([tree |-> t1,
                          nChildren |-> acc.nChildren + 1,
                          E |-> FAdd(acc.E, c.E),
                          p |-> AddWeighted(acc.p, wt, c.p),
                          sumWt |-> FAdd(acc.sumWt, wt),
                          sumArea |-> FAdd(acc.sumArea, c.sumArea)],
                         path, k + 1, pts)

\* InitHierarchy dividing by the eight slots of a node
InitHierarchyByEight(tree, path, pts) ==
    LET node == tree[path]
    IN IF node.isLeaf
       THEN LET s == LeafSums([E |-> node.E, p |-> node.p, sumWt |-> F(0),
                               sumArea |-> node.sumArea], node.ips, 1, pts)
            IN [tree EXCEPT ![path].sumArea = s.sumArea,
                   ![path].p = IF FPositive(s.sumWt)
                               THEN [k \in 1 .. 3 |-> FDiv(s.p[k], s.sumWt)]
                               ELSE s.p,
                   ![path].E = FDiv(s.E, F(8))]
       ELSE LET s == InteriorSums([tree |-> tree, nChildren |-> 0,
                                   E |-> node.E, p |-> node.p, sumWt |-> F(0),
                                   sumArea |-> node.sumArea], path, 0, pts)
            IN [s.tree EXCEPT ![path].sumArea = s.sumArea,
                   ![path].p = IF FPositive(s.sumWt)
                               THEN [k \in 1 .. 3 |-> FDiv(s.p[k], s.sumWt)]
                               ELSE s.p,
                   ![path].E = FDiv(s.E, F(8))]

\* SubsurfaceOctreeNode::InitHierarchy
InitHierarchy(tree, path, pts) ==
    LET node == tree[path]
    IN IF node.isLeaf
       THEN LET s == LeafSums([E |-> node.E, p |-> node.p, sumWt |-> F(0),
                               sumArea |-> node.sumArea], node.ips, 1, pts)
                i == Len(node.ips)
            IN [tree EXCEPT ![path].sumArea = s.sumArea,
                   ![path].p = IF FPositive(s.sumWt)
                               THEN [k \in 1 .. 3 |-> FDiv(s.p[k], s.sumWt)]
                               ELSE s.p,
                   ![path].E = FDiv(s.E, F(i))]
       ELSE LET s == InteriorSums([tree |-> tree, nChildren |-> 0,
                                   E |-> node.E, p |-> node.p, sumWt |-> F(0),
                                   sumArea |-> node.sumArea], path, 0, pts)
            IN [s.tree EXCEPT ![path].sumArea = s.sumArea,
                   ![path].p = IF FPositive(s.sumWt)
                               THEN [k \in 1 .. 3 |-> FDiv(s.p[k], s.sumWt)]
                               ELSE s.p,
                   ![path].E = FDiv(s.E, F(s.nChildren))]

\* DiffusionReflectance::operator(): a positive, finite, decreasing function
\* of the squared distance stands for the dipole formula
Rd(d2) == FDiv(F(1), FAdd(F(1), d2))

RECURSIVE LeafMo(_, _, _, _)
\* Mo += Rd(DistanceSquared(pt, ips[i]->p)) * ips[i]->E * ips[i]->area
LeafMo(ips, k, pt, pts) ==
    IF k > Len(ips) THEN F(0)
    ELSE LET ip == pts[ips[k]]
         IN FAdd(FMul(FMul(Rd(F(DistanceSquared(pt, ip.p))), F(ip.E)), F(ip.area)),
                 LeafMo(ips, k + 1, pt, pts))

RECURSIVE Mo(_, _, _, _, _, _)
RECURSIVE ChildrenMo(_, _, _, _, _, _, _)
ChildrenMo(tree, path, nodeBound, k, pt, maxError, pts) ==
    IF k > 7 THEN F(0)
    ELSE IF k \notin tree[path].children
    THEN ChildrenMo(tree, path, nodeBound, k + 1, pt, maxError, pts)
    ELSE FAdd(Mo(tree, Append(path, k), octreeChildBound(k, nodeBound), pt,
                 maxError, pts),
              ChildrenMo(tree, path, nodeBound, k + 1, pt, maxError, pts))

\* the cluster test without the clause on the node's bounds
MoErrorTestOnly(tree, path, nodeBound, pt, maxError, pts) ==
    LET node == tree[path]
        d2 == FDistanceSquared(FPoint(pt), node.p)
        dw == FDiv(node.sumArea, d2)
    IN IF FLess(dw, maxError)
       THEN FMul(FMul(Rd(d2), node.E), node.sumArea)
       ELSE IF node.isLeaf THEN LeafMo(node.ips, 1, pt, pts)
       ELSE ChildrenMo(tree, path, nodeBound, 0, pt, maxError, pts)

\* the cluster test accepts a node when either half of the condition holds
MoEitherTest(tree, path, nodeBound, pt, maxError, pts) ==
    LET node == tree[path]
        d2 == FDistanceSquared(FPoint(pt), node.p)
        dw == FDiv(node.sumArea, d2)
    IN IF FLess(dw, maxError) \/ ~Inside(nodeBound, pt)
       THEN FMul(FMul(Rd(d2), node.E), node.sumArea)
       ELSE IF node.isLeaf THEN LeafMo(node.ips, 1, pt, pts)
       ELSE ChildrenMo(tree, path, nodeBound, 0, pt, maxError, pts)

\* SubsurfaceOctreeNode::Mo
Mo(tree, path, nodeBound, pt, maxError, pts) ==
    LET node == tree[path]
        d2 == FDistanceSquared(FPoint(pt), node.p)
        dw == FDiv(node.sumArea, d2)
    IN IF FLess(dw, maxError) /\ ~Inside(nodeBound, pt)
       THEN FMul(FMul(Rd(d2), node.E), node.sumArea)
       ELSE IF node.isLeaf THEN LeafMo(node.ips, 1, pt, pts)
       ELSE ChildrenMo(tree, path, nodeBound, 0, pt, maxError, pts)

(***************************************************************************)
(* DipoleSubsurfaceIntegrator::Preprocess                                  *)
(***************************************************************************)
TasksRunning == TRUE
\* WaitForAllTasks() returns when every task has run to its end
TasksFinished == \A w \in Workers : pc[w] = "done"

\* "if (scene->lights.size() == 0) return", else the tasks are enqueued
EnqueueTasks ==
    /\ prePc = "start"
    /\ prePc' = IF nLights = 0 THEN "returned" ELSE "wait"
    /\ UNCHANGED <<traceVars, coreVars, cacheVars, sceneVars, mutex, taskVars, sharedVars, clusterVars>>

WaitForAllTasks ==
    /\ prePc = "wait"
    /\ TasksFinished
    /\ prePc' = "irradiance"
    /\ loopIndex' = 1
    /\ UNCHANGED <<traceVars, coreVars, cacheVars, sceneVars, mutex, taskVars, sharedVars, octree, octreeBounds>>

\* one iteration of "Compute irradiance values at sample points"
ComputeIrradiance ==
    /\ prePc = "irradiance"
    /\ loopIndex <= Len(irradiancePoints)
    /\ \E Elight \in Irradiances :
          irradiancePoints' = [irradiancePoints EXCEPT ![loopIndex].E = @ + Elight]
    /\ loopIndex' = loopIndex + 1
    /\ UNCHANGED <<traceVars, coreVars, cacheVars, sceneVars, prePc, mutex, taskVars, pointOctree, repeatedFails,
                   maxRepeatedFails, totalPathsTraced, numPointsAdded, warned,
                   octree, octreeBounds>>

RECURSIVE UnionPoints(_, _, _)
UnionPoints(b, pts, k) ==
    IF k > Len(pts) THEN b ELSE UnionPoints(UnionPoint(b, pts[k].p), pts, k + 1)

\* octree = octreeArena.Alloc<SubsurfaceOctreeNode>() and the octreeBounds loop
CreateOctree ==
    /\ prePc = "irradiance"
    /\ loopIndex > Len(irradiancePoints)
    /\ octree' = (RootPath :> NewNode)
    /\ octreeBounds' = UnionPoints(octreeBounds, irradiancePoints, 1)
    /\ prePc' = "insert"
    /\ loopIndex' = 1
    /\ UNCHANGED <<traceVars, coreVars, cacheVars, sceneVars, mutex, taskVars, sharedVars>>

\* the loop of octree->Insert without the test of the luminance
InsertPointAlways ==
    /\ prePc = "insert"
    /\ loopIndex <= Len(irradiancePoints)
    /\ octree' = Insert(octree, RootPath, octreeBounds, loopIndex,
                        irradiancePoints)
    /\ loopIndex' = loopIndex + 1
    /\ UNCHANGED <<traceVars, coreVars, cacheVars, sceneVars, prePc, mutex, taskVars,
                   sharedVars, octreeBounds>>

\* one iteration of the loop of octree->Insert
InsertPoint ==
    /\ prePc = "insert"
    /\ loopIndex <= Len(irradiancePoints)
    /\ octree' = IF irradiancePoints[loopIndex].E > 0
                 THEN Insert(octree, RootPath, octreeBounds, loopIndex,
                             irradiancePoints)
                 ELSE octree
    /\ loopIndex' = loopIndex + 1
    /\ UNCHANGED <<traceVars, coreVars, cacheVars, sceneVars, prePc, mutex, taskVars, sharedVars, octreeBounds>>

\* octree->InitHierarchy(), and Preprocess returns
InitHierarchyRoot ==
    /\ prePc = "insert"
    /\ loopIndex > Len(irradiancePoints)
    /\ octree' = InitHierarchy(octree, RootPath, irradiancePoints)
    /\ prePc' = "returned"
    /\ UNCHANGED <<traceVars, coreVars, cacheVars, sceneVars, mutex, taskVars, sharedVars, loopIndex, octreeBounds>>

Preprocess ==
    \/ EnqueueTasks
    \/ WaitForAllTasks
    \/ ComputeIrradiance
    \/ CreateOctree
    \/ InsertPoint
    \/ InitHierarchyRoot

(***************************************************************************)
(* The irradiance cache: IrradianceSample, IrradProcess, interpolateE and  *)
(* the cache miss of indirectLo.                                           *)
(***************************************************************************)
\* the rendering threads that call Li at the same time
nThreads == 2
Threads == 1 .. nThreads
\* the queries the threads start altogether
MaxQueries == 3

\* CreateIrradianceCacheIntegrator: minweight .5, minpixelspacing 2.5,
\* maxpixelspacing 15; cos(maxangledifference) is 49/50 for 11.5 degrees
DefaultMinWeight == Frac(1, 2)
minSamplePixelSpacing == Frac(5, 2)
maxSamplePixelSpacing == F(15)
cosMaxSampleAngleDifference == Frac(49, 50)

\* The calls of indirectLo: the point and its normal, the pixel spacing,
\* whether the BSDF has a component of the flags, and what the rays traced on
\* a miss bring back: the distance r.maxt * r.d.Length() of each ray
\* (INFINITY for a ray that hits nothing), E and weightedPrimaryDir.
IndirectLoCall(p, n, ps, dists, comps) ==
    [p |-> p, n |-> n, pixelSpacing |-> ps, rayDist |-> dists,
     E |-> F(2 + p[1]), dir |-> FPoint(n), components |-> comps]

CacheQuery(p, n) == IndirectLoCall(p, n, 1, <<Inf, F(8)>>, TRUE)

CacheQueries ==
    <<CacheQuery(<<0, 0, 0>>, <<0, 0, 1>>), CacheQuery(<<1, 0, 0>>, <<0, 0, 1>>),
      CacheQuery(<<3, 0, 0>>, <<0, 0, 1>>), CacheQuery(<<0, 0, 0>>, <<0, 0, -1>>)>>
QueryIds == 1 .. Len(CacheQueries)

\* More calls of indirectLo: least hit distances below, between and above the
\* clamping bounds and INFINITY (no ray hits), the pixel spacing 0 of
\* degenerate differentials, and a BSDF with no component of the flags.
WideQueries ==
    <<IndirectLoCall(<<0, 0, 0>>, <<0, 0, 1>>, 1, <<Inf, F(8)>>, TRUE),
      IndirectLoCall(<<1, 0, 0>>, <<0, 0, 1>>, 1, <<F(8), F(9)>>, TRUE),
      IndirectLoCall(<<3, 0, 0>>, <<0, 0, 1>>, 1, <<F(1), F(8)>>, TRUE),
      IndirectLoCall(<<0, 0, 0>>, <<0, 0, -1>>, 1, <<Inf, Inf>>, TRUE),
      IndirectLoCall(<<3, 0, 0>>, <<0, 0, 1>>, 1, <<F(100), F(40)>>, TRUE),
      IndirectLoCall(<<0, 0, 0>>, <<0, 0, 1>>, 0, <<F(8), Inf>>, TRUE),
      IndirectLoCall(<<1, 0, 0>>, <<0, 0, 1>>, 0, <<Inf, Inf>>, TRUE),
      IndirectLoCall(<<0, 0, 0>>, <<0, 0, 1>>, 1, <<Inf, F(8)>>, FALSE)>>

\* max(a, b) is (a < b) ? b : a and min(a, b) is (b < a) ? b : a
FMax(a, b) == IF FLess(a, b) THEN b ELSE a
FMin(a, b) == IF FLess(b, a) THEN b ELSE a

RECURSIVE ISqrtFrom(_, _)
ISqrtFrom(n, r) == IF (r + 1) * (r + 1) > n THEN r ELSE ISqrtFrom(n, r + 1)

\* sqrtf: exact on the squares of rationals, the arguments that arise here
Sqrt(a) ==
    IF a.k # "fin" THEN a
    ELSE IF a.n < 0 THEN NaN
    ELSE Frac(ISqrtFrom(a.n, 0), ISqrtFrom(a.d, 0))

Distance(a, b) == Sqrt(F(DistanceSquared(a, b)))
Dot(a, b) == a[1] * b[1] + a[2] * b[2] + a[3] * b[3]

\* IrradProcess::IrradProcess
NewIrradProcess(p, n, mw, cmsad) ==
    [p |-> p, n |-> n, minWeight |-> mw, cosMaxSampleAngleDifference |-> cmsad,
     nFound |-> 0, sumWt |-> F(0), E |-> F(0), wAvg |-> FPoint(<<0, 0, 0>>)]

\* what IrradProcess::operator() leaves of the sample it is handed
VisitedSampleScaled(pr, smp) == [smp EXCEPT !.E = FMul(@, F(2))]
VisitedSample(pr, smp) == smp

\* operator() with the weight 1 for every sample it uses
VisitSampleUnweighted(pr, smp) ==
    LET perr == FDiv(Distance(pr.p, smp.p), smp.maxDist)
        nerr == Sqrt(FDiv(FSub(F(1), F(Dot(pr.n, smp.n))),
                          FSub(F(1), pr.cosMaxSampleAngleDifference)))
    IN IF FLess(FMax(perr, nerr), F(1))
       THEN [pr EXCEPT !.nFound = @ + 1,
                       !.E = FAdd(@, smp.E),
                       !.wAvg = AddWeighted(@, F(1), smp.wAvg),
                       !.sumWt = FAdd(@, F(1))]
       ELSE pr

\* IrradProcess::operator(): the IrradProcess after the visit of smp
VisitSample(pr, smp) ==
    LET perr == FDiv(Distance(pr.p, smp.p), smp.maxDist)
        nerr == Sqrt(FDiv(FSub(F(1), F(Dot(pr.n, smp.n))),
                          FSub(F(1), pr.cosMaxSampleAngleDifference)))
        err  == FMax(perr, nerr)
        wt   == FSub(F(1), err)
    IN IF FLess(err, F(1))
       THEN [pr EXCEPT !.nFound = @ + 1,
                       !.E = FAdd(@, FMul(wt, smp.E)),
                       !.wAvg = AddWeighted(@, wt, smp.wAvg),
                       !.sumWt = FAdd(@, wt)]
       ELSE pr

\* IrradProcess::Successful: sumWt >= minWeight
Successful(pr) == pr.sumWt.k = "inf" \/ (~IsNaN(pr.sumWt) /\ ~FLess(pr.sumWt, pr.minWeight))

\* IrradProcess::GetIrradiance
GetIrradiance(pr) == FDiv(pr.E, pr.sumWt)

RECURSIVE LookupFrom(_, _, _)
\* octree->Lookup(p, proc): the visits of the entries i .. whose region holds p
LookupFrom(oct, pr, i) ==
    IF i > Len(oct) THEN pr
    ELSE LookupFrom(oct,
             IF i \in OctreeLookup(oct, pr.p) THEN VisitSample(pr, oct[i].data)
             ELSE pr,
             i + 1)

\* the octree after the Lookup of pr.p
LookupLeaves(oct, pr) ==
    [i \in 1 .. Len(oct) |->
        IF i \in OctreeLookup(oct, pr.p)
        THEN [oct[i] EXCEPT !.data = VisitedSample(pr, @)]
        ELSE oct[i]]

RECURSIVE MinHitDistance(_, _, _)
\* minHitDistance = min(minHitDistance, dist) over the rays i ..
MinHitDistance(mhd, dists, i) ==
    IF i > Len(dists) THEN mhd
    ELSE MinHitDistance(FMin(mhd, dists[i]), dists, i + 1)

\* contribExtent with the least hit distance not halved
ContribExtentNotHalved(q) ==
    LET maxDist == FMul(maxSamplePixelSpacing, F(q.pixelSpacing))
        minDist == FMul(minSamplePixelSpacing, F(q.pixelSpacing))
    IN FMin(FMax(minDist, MinHitDistance(Inf, q.rayDist, 1)), maxDist)

\* contribExtent = min(max(minDist, minHitDistance / 2.f), maxDist)
ContribExtent(q) ==
    LET maxDist == FMul(maxSamplePixelSpacing, F(q.pixelSpacing))
        minDist == FMul(minSamplePixelSpacing, F(q.pixelSpacing))
    IN FMin(FMax(minDist, FDiv(MinHitDistance(Inf, q.rayDist, 1), F(2))), maxDist)

\* new IrradianceSample(E, p, ng, weightedPrimaryDir, contribExtent)
NewIrradianceSample(q) ==
    [E |-> q.E, n |-> q.n, p |-> q.p, wAvg |-> q.dir, maxDist |-> ContribExtent(q)]

\* BBox sampleExtent(p); sampleExtent.Expand(contribExtent)
SampleExtent(p, ext) ==
    [pMin |-> [k \in 1 .. 3 |-> p[k] * ext.d - ext.n],
     pMax |-> [k \in 1 .. 3 |-> p[k] * ext.d + ext.n], den |-> ext.d]

\* Octree::Add in two steps: the entry is made, then its payload is stored
OctreeAddBegin(oct, data, bound) ==
    Append(oct, [data |-> data, bound |-> bound, written |-> FALSE])
OctreeAddEnd(oct, i) == [oct EXCEPT ![i].written = TRUE]

\* the locals of a thread that is not in indirectLo
NoLocal == <<>>

LookupUnlocked == "NONE"
\* RWMutexLock lock(*mutex, READ) in interpolateE
LookupLockMode == "READ"
AddLockShared == "READ"
\* RWMutexLock lock(*mutex, WRITE) in indirectLo
AddLockMode == "WRITE"

\* RWMutexLock::RWMutexLock and ~RWMutexLock
CanLockMutex(m, mode) ==
    IF mode = "READ" THEN CanAcquireRead(m)
    ELSE IF mode = "WRITE" THEN CanAcquireWrite(m) ELSE TRUE
LockMutex(m, t, mode) ==
    IF mode = "READ" THEN AcquireRead(m, t)
    ELSE IF mode = "WRITE" THEN AcquireWrite(m, t) ELSE m
UnlockMutex(m, t, mode) ==
    IF mode = "READ" THEN ReleaseRead(m, t)
    ELSE IF mode = "WRITE" THEN ReleaseWrite(m, t) ELSE m

RECURSIVE SumOver(_, _)
SumOver(f, S) ==
    IF S = {} THEN 0
    ELSE LET x == CHOOSE y \in S : TRUE IN f[x] + SumOver(f, S \ {x})

\* indirectLo without the test of bsdf->NumComponents(flags)
StartQueryUnchecked(t, qs) ==
    /\ ~destroyed
    /\ cpc[t] = "idle"
    /\ SumOver(issued, DOMAIN issued) < MaxQueries
    /\ \E q \in DOMAIN qs :
          /\ issued' = [issued EXCEPT ![q] = @ + 1]
          /\ query' = [query EXCEPT ![t] = qs[q]]
          /\ queryId' = [queryId EXCEPT ![t] = q]
          /\ cpc' = [cpc EXCEPT ![t] = "interpolateE"]
    /\ UNCHANGED <<traceVars, coreVars, dipoleVars, primeVars, octreeVars, cacheMutex, cache, destroyed, proc, sample, slot,
                   missed, torn>>

\* a rendering thread calls indirectLo with one of the calls qs; with no
\* component of the flags in the BSDF it returns Spectrum(0.) at once
StartQueryOf(t, qs) ==
    /\ ~destroyed
    /\ cpc[t] = "idle"
    /\ SumOver(issued, DOMAIN issued) < MaxQueries
    /\ \E q \in DOMAIN qs :
          /\ issued' = [issued EXCEPT ![q] = @ + 1]
          /\ IF qs[q].components
             THEN /\ query' = [query EXCEPT ![t] = qs[q]]
                  /\ queryId' = [queryId EXCEPT ![t] = q]
                  /\ cpc' = [cpc EXCEPT ![t] = "interpolateE"]
             ELSE UNCHANGED <<query, queryId, cpc>>
    /\ UNCHANGED <<traceVars, coreVars, dipoleVars, primeVars, octreeVars, cacheMutex, cache, destroyed, proc, sample, slot,
                   missed, torn>>

StartQuery(t) == StartQueryOf(t, CacheQueries)

\* interpolateE: IrradProcess proc(...); RWMutexLock lock(*mutex, READ)
LockRead(t) ==
    /\ cpc[t] = "interpolateE"
    /\ CanLockMutex(cacheMutex, LookupLockMode)
    /\ cacheMutex' = LockMutex(cacheMutex, t, LookupLockMode)
    /\ proc' = [proc EXCEPT ![t] =
                   NewIrradProcess(query[t].p, query[t].n, minWeight,
                                   cosMaxSampleAngleDifference)]
    /\ cpc' = [cpc EXCEPT ![t] = "lookup"]
    /\ UNCHANGED <<traceVars, coreVars, dipoleVars, primeVars, octreeVars, cache, destroyed, query, sample, slot,
                   queryId, historyVars>>

\* interpolateE: octree->Lookup(p, proc)
Lookup(t) ==
    /\ cpc[t] = "lookup"
    /\ proc' = [proc EXCEPT ![t] = LookupFrom(cache, proc[t], 1)]
    /\ cache' = LookupLeaves(cache, proc[t])
    /\ torn' = (torn \/ \E i \in OctreeLookup(cache, proc[t].p) :
                            ~cache[i].written)
    /\ cpc' = [cpc EXCEPT ![t] = "interpolated"]
    /\ UNCHANGED <<traceVars, coreVars, dipoleVars, primeVars, octreeVars, cacheMutex, destroyed, query, sample, slot,
                   queryId, issued, missed>>

\* interpolateE with a read lock that a miss keeps until indirectLo returns
FinishInterpolateHolding(t) ==
    /\ cpc[t] = "interpolated"
    /\ cacheMutex' = IF Successful(proc[t])
                     THEN UnlockMutex(cacheMutex, t, LookupLockMode)
                     ELSE cacheMutex
    /\ IF Successful(proc[t])
       THEN /\ cpc' = [cpc EXCEPT ![t] = "idle"]
            /\ query' = [query EXCEPT ![t] = NoLocal]
            /\ queryId' = [queryId EXCEPT ![t] = 0]
            /\ UNCHANGED missed
       ELSE /\ cpc' = [cpc EXCEPT ![t] = "compute"]
            /\ missed' = [missed EXCEPT ![queryId[t]] = @ + 1]
            /\ UNCHANGED <<query, queryId>>
    /\ proc' = [proc EXCEPT ![t] = NoLocal]
    /\ UNCHANGED <<traceVars, coreVars, dipoleVars, primeVars, octreeVars, cache, destroyed, sample, slot, issued, torn>>

\* interpolateE returns proc.Successful() and its lock goes out of scope; on
\* success indirectLo returns the reflected radiance
FinishInterpolate(t) ==
    /\ cpc[t] = "interpolated"
    /\ cacheMutex' = UnlockMutex(cacheMutex, t, LookupLockMode)
    /\ IF Successful(proc[t])
       THEN /\ cpc' = [cpc EXCEPT ![t] = "idle"]
            /\ query' = [query EXCEPT ![t] = NoLocal]
            /\ queryId' = [queryId EXCEPT ![t] = 0]
            /\ UNCHANGED missed
       ELSE /\ cpc' = [cpc EXCEPT ![t] = "compute"]
            /\ missed' = [missed EXCEPT ![queryId[t]] = @ + 1]
            /\ UNCHANGED <<query, queryId>>
    /\ proc' = [proc EXCEPT ![t] = NoLocal]
    /\ UNCHANGED <<traceVars, coreVars, dipoleVars, primeVars, octreeVars, cache, destroyed, sample, slot, issued, torn>>

\* indirectLo on a miss: the nSamples rays, and new IrradianceSample(...)
ComputeSample(t) ==
    /\ cpc[t] = "compute"
    /\ sample' = [sample EXCEPT ![t] = NewIrradianceSample(query[t])]
    /\ cpc' = [cpc EXCEPT ![t] = "lockWrite"]
    /\ UNCHANGED <<traceVars, coreVars, dipoleVars, primeVars, octreeVars, cacheMutex, cache, destroyed, query, proc, slot,
                   queryId, historyVars>>

\* indirectLo: RWMutexLock lock(*mutex, WRITE)
LockWrite(t) ==
    /\ cpc[t] = "lockWrite"
    /\ CanLockMutex(cacheMutex, AddLockMode)
    /\ cacheMutex' = LockMutex(cacheMutex, t, AddLockMode)
    /\ cpc' = [cpc EXCEPT ![t] = "add"]
    /\ UNCHANGED <<traceVars, coreVars, dipoleVars, primeVars, octreeVars, cache, destroyed, query, proc, sample, slot,
                   queryId, historyVars>>

\* indirectLo: octree->Add(sample, sampleExtent), the entry is made
AddBegin(t) ==
    /\ cpc[t] = "add"
    /\ cache' = OctreeAddBegin(cache, sample[t],
                               SampleExtent(sample[t].p, sample[t].maxDist))
    /\ slot' = [slot EXCEPT ![t] = Len(cache) + 1]
    /\ cpc' = [cpc EXCEPT ![t] = "adding"]
    /\ UNCHANGED <<traceVars, coreVars, dipoleVars, primeVars, octreeVars, cacheMutex, destroyed, query, proc, sample,
                   queryId, historyVars>>

\* octree->Add returns, the lock goes out of scope and indirectLo returns
AddEnd(t) ==
    /\ cpc[t] = "adding"
    /\ cache' = OctreeAddEnd(cache, slot[t])
    /\ cacheMutex' = UnlockMutex(cacheMutex, t, AddLockMode)
    /\ cpc' = [cpc EXCEPT ![t] = "idle"]
    /\ query' = [query EXCEPT ![t] = NoLocal]
    /\ sample' = [sample EXCEPT ![t] = NoLocal]
    /\ slot' = [slot EXCEPT ![t] = 0]
    /\ queryId' = [queryId EXCEPT ![t] = 0]
    /\ UNCHANGED <<traceVars, coreVars, dipoleVars, primeVars, octreeVars, destroyed, proc, issued, missed, torn>>

\* IrradianceCacheIntegrator::~IrradianceCacheIntegrator, after the rendering
Destructor ==
    /\ ~destroyed
    /\ \A t \in Threads : cpc[t] = "idle"
    /\ destroyed' = TRUE
    /\ cache' = <<>>
    /\ UNCHANGED <<traceVars, coreVars, dipoleVars, primeVars, octreeVars, cacheMutex, threadVars, historyVars>>

indirectLo(t) ==
    \/ StartQuery(t)
    \/ LockRead(t)
    \/ Lookup(t)
    \/ FinishInterpolate(t)
    \/ ComputeSample(t)
    \/ LockWrite(t)
    \/ AddBegin(t)
    \/ AddEnd(t)

(***************************************************************************)
(* Octree<T> node by node: a region tree over a fixed bounding box.  Add   *)
(* descends into every child whose region the payload's region overlaps,   *)
(* until the depth bound or a node smaller than the payload's region, and  *)
(* stores the payload there.  Lookup walks the nodes whose region holds    *)
(* the point, from the root, and hands each payload of theirs to the       *)
(* visitor until the visitor returns false.                                *)
(***************************************************************************)
\* the depth at which Add stops subdividing
maxDepth == 3
\* the payloads added to one octree
MaxItems == 3

\* the bounding box of the octree
OctreeBound == [pMin |-> <<-4, -4, -4>>, pMax |-> <<4, 4, 4>>, den |-> 1]

\* the points of the payloads and of the lookups
OctreePoints == {<<0, 0, 0>>, <<1, 0, 0>>, <<2, 0, 0>>, <<-3, 1, 0>>}

\* the regions a payload at p is added with: the box of PoissonPointTask::Run
\* around an IrradiancePoint, the sampleExtent of an IrradianceSample
OctreeRegions(kind, p) ==
    IF kind = "IrradiancePoint" THEN {PointBound(p)}
    ELSE {SampleExtent(p, ext) : ext \in {F(0), Frac(5, 2), F(4)}}

EmptyOctree(kind) ==
    [kind |-> kind, nodes |-> (RootPath :> <<>>), items |-> <<>>]

\* the squared diagonal of a is below that of b
DiagonalLess(a, b) ==
    DistanceSquared(a.pMin, a.pMax) * b.den * b.den
        < DistanceSquared(b.pMin, b.pMax) * a.den * a.den

\* the region of the child overlaps dataBound
OctreeOverlaps(child, nodeBound, dataBound) ==
    \A k \in 1 .. 3 :
        LET upper == <<(child \div 4) % 2 = 1, (child \div 2) % 2 = 1,
                       child % 2 = 1>>[k]
            mid2 == nodeBound.pMin[k] + nodeBound.pMax[k]
        IN IF upper
           THEN 2 * nodeBound.den * dataBound.pMax[k] > mid2 * dataBound.den
           ELSE 2 * nodeBound.den * dataBound.pMin[k] <= mid2 * dataBound.den

RECURSIVE OctreeAddPrivate(_, _, _, _)
\* Add, from the node at path down: the nodes that take the payload
OctreeAddPrivate(path, nodeBound, dataBound, depth) ==
    IF depth = maxDepth \/ DiagonalLess(nodeBound, dataBound)
    THEN {path}
    ELSE UNION {OctreeAddPrivate(Append(path, child),
                                 octreeChildBound(child, nodeBound),
                                 dataBound, depth + 1) :
                   child \in {c \in 0 .. 7 :
                                 OctreeOverlaps(c, nodeBound, dataBound)}}

\* Add(payload, region): the nodes on the way are made, and the payload is
\* stored in the nodes that take it
OctreeAddItem(oct, p, dataBound) ==
    LET item == Len(oct.items) + 1
        takers == OctreeAddPrivate(RootPath, OctreeBound, dataBound, 0)
        made == UNION {{SubSeq(path, 1, k) : k \in 0 .. Len(path)} :
                          path \in takers}
    IN [oct EXCEPT !.items = Append(@, [p |-> p, bound |-> dataBound]),
                   !.nodes = [path \in DOMAIN @ \cup made |->
                                 LET data == IF path \in DOMAIN @ THEN @[path]
                                             ELSE <<>>
                                 IN IF path \in takers THEN Append(data, item)
                                    ELSE data]]

\* what the visitor returns for a payload: PoissonCheck returns false for a
\* point within minSampleDist, IrradProcess returns true
VisitorContinues(kind, p, item) ==
    IF kind = "IrradiancePoint" THEN ~PoissonCheck(minSampleDist, p, item) ELSE TRUE

RECURSIVE OctreeVisitData(_, _, _, _, _)
\* the payloads data[i ..] of a node, up to a false of the visitor
OctreeVisitData(oct, data, i, p, acc) ==
    IF i > Len(data) THEN [visits |-> acc, continue |-> TRUE]
    ELSE IF VisitorContinues(oct.kind, p, oct.items[data[i]])
    THEN OctreeVisitData(oct, data, i + 1, p, Append(acc, data[i]))
    ELSE [visits |-> Append(acc, data[i]), continue |-> FALSE]

\* the child that takes the point on a face of its region
OctreeChildUpper(b, p) ==
    (IF 2 * b.den * p[1] >= b.pMin[1] + b.pMax[1] THEN 4 ELSE 0)
        + (IF 2 * b.den * p[2] >= b.pMin[2] + b.pMax[2] THEN 2 ELSE 0)
        + (IF 2 * b.den * p[3] >= b.pMin[3] + b.pMax[3] THEN 1 ELSE 0)

\* the child whose region holds p
OctreeChild(b, p) ==
    (IF 2 * b.den * p[1] > b.pMin[1] + b.pMax[1] THEN 4 ELSE 0)
        + (IF 2 * b.den * p[2] > b.pMin[2] + b.pMax[2] THEN 2 ELSE 0)
        + (IF 2 * b.den * p[3] > b.pMin[3] + b.pMax[3] THEN 1 ELSE 0)

RECURSIVE OctreeLookupPrivate(_, _, _, _, _)
\* Lookup, from the node at path down; acc is what was visited above
OctreeLookupPrivate(oct, path, nodeBound, p, acc) ==
    LET here == OctreeVisitData(oct, oct.nodes[path], 1, p, acc)
        child == OctreeChild(nodeBound, p)
    IN IF ~here.continue \/ Append(path, child) \notin DOMAIN oct.nodes
       THEN here.visits
       ELSE OctreeLookupPrivate(oct, Append(path, child),
                                octreeChildBound(child, nodeBound), p, here.visits)

\* Lookup(p, visitor): the payloads handed to the visitor, in order
OctreeVisits(oct, p) ==
    IF ~Inside(OctreeBound, p) THEN <<>>
    ELSE OctreeLookupPrivate(oct, RootPath, OctreeBound, p, <<>>)

\* Add(payload, region); the points of a Poisson-disk octree keep their
\* distance
SpatialAdd ==
    /\ Len(spatialOctree.items) < MaxItems
    /\ \E p \in OctreePoints :
          /\ spatialOctree.kind = "IrradiancePoint" =>
                 \A i \in 1 .. Len(spatialOctree.items) :
                     ~PoissonCheck(minSampleDist, p, spatialOctree.items[i])
          /\ \E b \in OctreeRegions(spatialOctree.kind, p) :
                 spatialOctree' = OctreeAddItem(spatialOctree, p, b)
    /\ lastLookup' = <<>>
    /\ UNCHANGED <<traceVars, coreVars, dipoleVars, primeVars, cacheMutex, cache, destroyed,
                   threadVars, historyVars>>

\* Lookup(p, visitor)
SpatialLookup ==
    /\ \E p \in OctreePoints :
          lastLookup' = [p |-> p, visits |-> OctreeVisits(spatialOctree, p)]
    /\ UNCHANGED <<traceVars, coreVars, dipoleVars, primeVars, cacheMutex, cache, destroyed,
                   threadVars, historyVars, spatialOctree>>

(***************************************************************************)
(* IrradianceCacheIntegrator::Preprocess and the IrradiancePrimeTasks.     *)
(* minWeight is a float: 24 significant bits, results rounded to the       *)
(* nearest, ties to the even significand.                                  *)
(***************************************************************************)
\* the IrradiancePrimeTasks of Preprocess (64 in the program)
nPrimeTasks == 2
PrimeTasks == 1 .. nPrimeTasks

\* the minweight parameters: .5f, .1f and .9f
MinWeights ==
    {Frac(1, 2), Frac(13421773, 134217728), Frac(15099494, 16777216)}

\* n / d rounded to the nearest integer, ties to even
RoundNearestEven(n, d) ==
    LET q == n \div d
        r == n % d
    IN IF 2 * r > d \/ (2 * r = d /\ q % 2 = 1) THEN q + 1 ELSE q

\* minWeight *= 1.5f: 3n / 2d with the significand 3n rounded to 24 bits
TimesOneAndHalf(x) ==
    LET n3 == 3 * x.n
        k == IF n3 < 16777216 THEN 1 ELSE IF n3 < 33554432 THEN 2 ELSE 4
    IN Frac(RoundNearestEven(n3, k) * k, 2 * x.d)

RECURSIVE ScaleUp(_, _)
\* the least power of two that takes n to 3 * 2^23 or above
ScaleUp(n, j) == IF n * j >= 25165824 THEN j ELSE ScaleUp(n, 2 * j)

\* minWeight /= 1.5f: 2n / 3d with the quotient rounded to 24 bits
DividedByOneAndHalf(x) ==
    LET j == ScaleUp(2 * x.n, 1)
    IN Frac(RoundNearestEven(2 * x.n * j, 3), x.d * j)

\* Preprocess up to EnqueueTasks(tasks): octree = new Octree<...>(wb) and
\* minWeight *= 1.5f
PrimeEnqueueTasks ==
    /\ primePc = "start"
    /\ cache' = <<>>
    /\ weightBefore' = minWeight
    /\ minWeight' = TimesOneAndHalf(minWeight)
    /\ primeTasks' = [k \in PrimeTasks |-> "queued"]
    /\ primePc' = "wait"
    /\ UNCHANGED <<traceVars, coreVars, dipoleVars, octreeVars, cacheMutex, destroyed, threadVars,
                   historyVars, primeThread>>

\* a thread of the task system takes a task that is queued
PrimeTaskBegin(t) ==
    /\ primePc = "wait"
    /\ primeThread[t] = 0
    /\ \E k \in PrimeTasks :
          /\ primeTasks[k] = "queued"
          /\ primeTasks' = [primeTasks EXCEPT ![k] = "running"]
          /\ primeThread' = [primeThread EXCEPT ![t] = k]
    /\ UNCHANGED <<traceVars, coreVars, dipoleVars, octreeVars, cacheMutex, cache, destroyed,
                   threadVars, historyVars, minWeight, primePc, weightBefore>>

\* IrradiancePrimeTask::Run: irradianceCache->Li(...) for a sample
PrimeTaskLi(t) ==
    /\ primeThread[t] # 0
    /\ indirectLo(t)

\* IrradiancePrimeTask::Run returns
PrimeTaskEnd(t) ==
    /\ primeThread[t] # 0
    /\ cpc[t] = "idle"
    /\ primeTasks' = [primeTasks EXCEPT ![primeThread[t]] = "done"]
    /\ primeThread' = [primeThread EXCEPT ![t] = 0]
    /\ UNCHANGED <<traceVars, coreVars, dipoleVars, octreeVars, cacheMutex, cache, destroyed,
                   threadVars, historyVars, minWeight, primePc, weightBefore>>

\* WaitForAllTasks() returns, minWeight /= 1.5f and Preprocess returns
PrimeWaitForAllTasks ==
    /\ primePc = "wait"
    /\ \A k \in PrimeTasks : primeTasks[k] = "done"
    /\ minWeight' = DividedByOneAndHalf(minWeight)
    /\ primePc' = "returned"
    /\ UNCHANGED <<traceVars, coreVars, dipoleVars, octreeVars, cacheMutex, cache, destroyed,
                   threadVars, historyVars, primeTasks, primeThread, weightBefore>>

PrimeRun(t) == PrimeTaskBegin(t) \/ PrimeTaskLi(t) \/ PrimeTaskEnd(t)

(***************************************************************************)
(* The random walk of PoissonPointTask::Run.  scene->Intersect is a table:  *)
(* what a ray leaving the place "at" in the direction "dir" finds.          *)
(***************************************************************************)
\* RNG::RandomFloat: the state after the draw, which is the number drawn
RandomFloat(s) == (5 * s + 3) % 17

\* "RNG rng(37 * taskNum)", the tasks being numbered from 0
Seed(w) == (37 * (w - 1)) % 17

NoRay == <<>>

\* the locals of Run() at its start
NewTrace(w) == [rng |-> Seed(w), ray |-> NoRay, pathsTraced |-> 0, pathRays |-> 0]

\* no task has traced a ray
TraceIdle ==
    /\ geometry = <<>>
    /\ trace = [w \in Workers |-> NewTrace(w)]
    /\ batches = [w \in Workers |-> <<>>]
    /\ indirect = <<>>

\* no Distribution1D has been built
CoreIdle ==
    /\ distribution = <<>>
    /\ lastSample = <<>>
    /\ stream = <<>>
    /\ shading = <<>>

\* the state before Preprocess of the subsurface integrator
DipoleIdle ==
    /\ prePc = "start"
    /\ mutex = FreeMutex
    /\ pc = [w \in Workers |-> "trace"]
    /\ candidates = [w \in Workers |-> <<>>]
    /\ candidateRejected = [w \in Workers |-> <<>>]
    /\ pointOctree = <<>>
    /\ irradiancePoints = <<>>
    /\ repeatedFails = 0
    /\ maxRepeatedFails = 0
    /\ totalPathsTraced = 0
    /\ numPointsAdded = 0
    /\ warned = FALSE
    /\ loopIndex = 0
    /\ octree = NullTree
    /\ octreeBounds = EmptyBBox

\* Preprocess of the irradiance cache has returned, with the default minWeight
PrimeIdle ==
    /\ minWeight = DefaultMinWeight
    /\ primePc = "returned"
    /\ primeTasks = <<>>
    /\ primeThread = [t \in Threads |-> 0]
    /\ weightBefore = DefaultMinWeight

\* no Octree<T> but those of the two integrators
OctreeIdle ==
    /\ spatialOctree = <<>>
    /\ lastLookup = <<>>

\* the empty irradiance cache, no thread in indirectLo
CacheIdle ==
    /\ cacheMutex = FreeMutex
    /\ cache = <<>>
    /\ destroyed = FALSE
    /\ cpc = [t \in Threads |-> "idle"]
    /\ query = [t \in Threads |-> NoLocal]
    /\ proc = [t \in Threads |-> NoLocal]
    /\ sample = [t \in Threads |-> NoLocal]
    /\ slot = [t \in Threads |-> 0]
    /\ queryId = [t \in Threads |-> 0]
    /\ issued = [q \in QueryIds |-> 0]
    /\ missed = [q \in QueryIds |-> 0]
    /\ torn = FALSE
    /\ PrimeIdle
    /\ OctreeIdle

Init ==
    /\ bssrdfSurface \in Scenes
    /\ nLights \in {0, 1}
    /\ DipoleIdle
    /\ CoreIdle
    /\ TraceIdle
    /\ CacheIdle

CacheInit ==
    /\ bssrdfSurface = {}
    /\ nLights = 0
    /\ DipoleIdle
    /\ CoreIdle
    /\ TraceIdle
    /\ CacheIdle

Next == Preprocess \/ \E w \in Workers : Run(w)

Spec == Init /\ [][Next]_vars

CacheNext == Destructor \/ \E t \in Threads : indirectLo(t)

CacheSpec == CacheInit /\ [][CacheNext]_vars

\* the irradiance cache as constructed, before its Preprocess
PrimeInit ==
    /\ bssrdfSurface = {}
    /\ nLights = 0
    /\ DipoleIdle
    /\ CoreIdle
    /\ TraceIdle
    /\ cacheMutex = FreeMutex
    /\ cache = <<>>
    /\ destroyed = FALSE
    /\ cpc = [t \in Threads |-> "idle"]
    /\ query = [t \in Threads |-> NoLocal]
    /\ proc = [t \in Threads |-> NoLocal]
    /\ sample = [t \in Threads |-> NoLocal]
    /\ slot = [t \in Threads |-> 0]
    /\ queryId = [t \in Threads |-> 0]
    /\ issued = [q \in QueryIds |-> 0]
    /\ missed = [q \in QueryIds |-> 0]
    /\ torn = FALSE
    /\ minWeight \in MinWeights
    /\ primePc = "start"
    /\ primeTasks = <<>>
    /\ primeThread = [t \in Threads |-> 0]
    /\ weightBefore = minWeight
    /\ OctreeIdle

PrimeNext ==
    PrimeEnqueueTasks \/ PrimeWaitForAllTasks \/ \E t \in Threads : PrimeRun(t)

PrimeSpec == PrimeInit /\ [][PrimeNext]_vars

\* an empty octree of either payload
SpatialInit ==
    /\ bssrdfSurface = {}
    /\ nLights = 0
    /\ DipoleIdle
    /\ CoreIdle
    /\ TraceIdle
    /\ cacheMutex = FreeMutex
    /\ cache = <<>>
    /\ destroyed = FALSE
    /\ cpc = [t \in Threads |-> "idle"]
    /\ query = [t \in Threads |-> NoLocal]
    /\ proc = [t \in Threads |-> NoLocal]
    /\ sample = [t \in Threads |-> NoLocal]
    /\ slot = [t \in Threads |-> 0]
    /\ queryId = [t \in Threads |-> 0]
    /\ issued = [q \in QueryIds |-> 0]
    /\ missed = [q \in QueryIds |-> 0]
    /\ torn = FALSE
    /\ PrimeIdle
    /\ spatialOctree \in {EmptyOctree("IrradiancePoint"),
                           EmptyOctree("IrradianceSample")}
    /\ lastLookup = <<>>

SpatialNext == SpatialAdd \/ SpatialLookup

SpatialSpec == SpatialInit /\ [][SpatialNext]_vars

\* the empty cache before the calls of WideQueries
WideInit ==
    /\ bssrdfSurface = {}
    /\ nLights = 0
    /\ DipoleIdle
    /\ CoreIdle
    /\ TraceIdle
    /\ cacheMutex = FreeMutex
    /\ cache = <<>>
    /\ destroyed = FALSE
    /\ cpc = [t \in Threads |-> "idle"]
    /\ query = [t \in Threads |-> NoLocal]
    /\ proc = [t \in Threads |-> NoLocal]
    /\ sample = [t \in Threads |-> NoLocal]
    /\ slot = [t \in Threads |-> 0]
    /\ queryId = [t \in Threads |-> 0]
    /\ issued = [q \in DOMAIN WideQueries |-> 0]
    /\ missed = [q \in DOMAIN WideQueries |-> 0]
    /\ torn = FALSE
    /\ PrimeIdle
    /\ OctreeIdle

\* the calls of WideQueries, one after the other
WideCall(t) ==
    \/ StartQueryOf(t, WideQueries)
    \/ LockRead(t)
    \/ Lookup(t)
    \/ FinishInterpolate(t)
    \/ ComputeSample(t)
    \/ LockWrite(t)
    \/ AddBegin(t)
    \/ AddEnd(t)

WideNext == WideCall(1)

WideSpec == WideInit /\ [][WideNext]_vars

Generation == EnqueueTasks \/ WaitForAllTasks \/ \E w \in Workers : Run(w)

\* The task system keeps running a task that can take a step, and the thread
\* of Preprocess once WaitForAllTasks can return; the mutex grants the write
\* lock to a task that finds it free again and again.
FairSpec ==
    /\ Spec
    /\ WF_vars(Generation)
    /\ \A w \in Workers : SF_vars(UpgradeAcquire(w))

TypeOK ==
    /\ mutex.readers \subseteq Workers
    /\ mutex.writer \in Workers \cup {NoTask}
    /\ repeatedFails \in 0 .. maxFails
    /\ numPointsAdded = Len(irradiancePoints)

(***************************************************************************)
(* The Poisson-disk point generator                                        *)
(***************************************************************************)
\* C1: at every moment any two distinct points of irradiancePoints are at
\* least minSampleDist apart, and pointOctree holds exactly the points of the
\* list - whatever the interleaving of the workers.
C1_PoissonDisk ==
    /\ \A i, j \in 1 .. Len(irradiancePoints) :
          i # j => DistanceSquared(irradiancePoints[i].p, irradiancePoints[j].p)
                       >= minSampleDist * minSampleDist
    /\ Len(pointOctree) = Len(irradiancePoints)
    /\ \A i \in 1 .. Len(pointOctree) :
          /\ pointOctree[i].data.p = irradiancePoints[i].p
          /\ pointOctree[i].bound = PointBound(irradiancePoints[i].p)

\* A worker holds the write lock with a batch that passed the first pass
\* whole, although two of its candidates are too close to each other and
\* another worker has since inserted a point too close to one of them.
C1_Witness ==
    \E w \in Workers :
        /\ pc[w] = "writePass"
        /\ Len(irradiancePoints) > 0
        /\ \A k \in 1 .. Len(candidates[w]) : ~candidateRejected[w][k]
        /\ \E k \in 1 .. Len(candidates[w]) :
              CheckFailed(pointOctree, candidates[w][k].p)
        /\ \E j, k \in 1 .. Len(candidates[w]) :
              /\ j # k
              /\ DistanceSquared(candidates[w][j].p, candidates[w][k].p)
                     < minSampleDist * minSampleDist

\* Some step of the generator can be taken while a worker waits for the
\* write lock: the lock is free, or its holder is not itself waiting.
NoUpgradeDeadlock ==
    (\E w \in Workers : pc[w] = "lockWrite") =>
        \/ CanAcquireWrite(mutex)
        \/ \E v \in Workers :
              /\ v \in mutex.readers \/ mutex.writer = v
              /\ pc[v] \in {"upgrade", "writePass", "return", "endLoop"}

\* C4: upgrading from the read lock to the write lock never deadlocks, also
\* when several workers upgrade at once: every worker that asks for the
\* upgrade comes to hold the write lock, alone.
C4_UpgradeNeverDeadlocks ==
    /\ []NoUpgradeDeadlock
    /\ \A w \in Workers :
          (pc[w] = "lockWrite")
              ~> (pc[w] = "writePass" /\ mutex.writer = w /\ mutex.readers = {})

\* One worker holds the write lock while every other worker waits for it.
C4_Witness ==
    \E w \in Workers :
        /\ pc[w] = "writePass" /\ mutex.writer = w
        /\ \A v \in Workers \ {w} : pc[v] = "lockWrite"

\* C5: a worker returns only when repeatedFails has reached maxFails or when
\* more than 50000 paths were traced and numPointsAdded is still 0, and it
\* holds the write lock when it decides so; otherwise it ends the loop body
\* with its candidates cleared and starts the next batch.
C5_ReturnConditions ==
    [][\A w \in Workers :
          /\ (pc'[w] = "return" /\ pc[w] # "return") =>
                /\ pc[w] = "writePass"
                /\ mutex.writer = w /\ mutex'.writer = w
                /\ \/ repeatedFails' >= maxFails
                   \/ totalPathsTraced' > 50000 /\ numPointsAdded' = 0
          /\ (pc'[w] = "done" /\ pc[w] # "done") => pc[w] = "return"
          /\ (pc[w] = "writePass" /\ pc'[w] \notin {"writePass", "return"}) =>
                /\ pc'[w] = "endLoop"
                /\ repeatedFails' < maxFails
                /\ ~(totalPathsTraced' > 50000 /\ numPointsAdded' = 0)
                /\ candidates'[w] = <<>> /\ candidateRejected'[w] = <<>>
          /\ (pc[w] = "endLoop" /\ pc'[w] # "endLoop") => pc'[w] = "trace"
      ]_vars

\* A worker has returned on maxFails while another one, which goes on,
\* is about to check its next batch.
C5_Witness ==
    \E w, v \in Workers :
        /\ pc[w] = "return" /\ mutex.writer = w
        /\ repeatedFails >= maxFails /\ numPointsAdded > 0
        /\ pc[v] = "readPass" /\ candidates[v] # <<>>

\* C6: if every batch of paths deposits a candidate, every worker returns
\* and WaitForAllTasks completes (trivially so when no task was enqueued).
C6_Termination ==
    <>(\/ \E w \in Workers : pc[w] = "readPass" /\ candidates[w] = <<>>
       \/ prePc \notin {"start", "wait"})

\* WaitForAllTasks has returned in a scene that has lights and translucent
\* surfaces, with the surface covered by points.
C6_Witness ==
    /\ prePc = "irradiance"
    /\ nLights > 0
    /\ TasksFinished
    /\ repeatedFails >= maxFails
    /\ numPointsAdded > 0

\* C7 as stated: without any BSSRDF material the generator ends with no
\* point and the warning, within 50000 traced paths in total.
C7_Within50000 ==
    (bssrdfSurface = {} /\ TasksFinished) =>
        /\ numPointsAdded = 0
        /\ warned
        /\ totalPathsTraced <= 50000

\* C7: without any BSSRDF material no point is ever added; a worker returns
\* only with the warning issued and more than 50000 paths counted, and when
\* all have returned exactly (50000 \div 20000 + nTasks) batches were counted.
C7_NoBSSRDF ==
    bssrdfSurface = {} =>
        /\ numPointsAdded = 0 /\ irradiancePoints = <<>> /\ pointOctree = <<>>
        /\ \A w \in Workers :
              pc[w] \in {"return", "done"} =>
                  warned /\ totalPathsTraced > GiveUpPaths
        /\ TasksFinished =>
              totalPathsTraced
                  = PathsPerBatch * ((GiveUpPaths \div PathsPerBatch) + nTasks)

\* All workers have given up in a scene without translucent surfaces.
C7_Witness ==
    bssrdfSurface = {} /\ nLights > 0 /\ TasksFinished /\ warned

\* C8: when no point was deposited, InitHierarchy divides by nothing that is
\* zero and Mo returns the zero spectrum for every query point and maxError.
C8_EmptyHierarchy ==
    (prePc = "returned" /\ nLights > 0 /\ numPointsAdded = 0) =>
        /\ ~IsNaN(octree[RootPath].E)
        /\ \A pt \in QueryPoints, maxError \in MaxErrors :
              Mo(octree, RootPath, octreeBounds, pt, maxError, irradiancePoints)
                  = F(0)

\* C9: the phases of Preprocess are strictly ordered.  No E is computed
\* before every task has returned, no point enters the cluster tree before
\* the irradiance loop is through, InitHierarchy runs once, after the last
\* Insert, and no point is appended once the generation has ended.
C9_PhaseOrder ==
    [][/\ (\E i \in 1 .. Len(irradiancePoints) :
              /\ i <= Len(irradiancePoints')
              /\ irradiancePoints'[i].E # irradiancePoints[i].E) =>
              /\ TasksFinished
              /\ prePc = "irradiance"
       /\ octree' # octree =>
              /\ TasksFinished
              /\ \/ prePc = "irradiance" /\ loopIndex > Len(irradiancePoints)
                 \/ prePc = "insert"
       /\ (prePc' = "insert" /\ prePc # "insert") =>
              prePc = "irradiance" /\ loopIndex > Len(irradiancePoints)
       /\ (prePc' = "returned" /\ prePc # "returned" /\ nLights > 0) =>
              /\ prePc = "insert" /\ loopIndex > Len(irradiancePoints)
              /\ octree' = InitHierarchy(octree, RootPath, irradiancePoints)
       /\ prePc = "returned" => octree' = octree
       /\ Len(irradiancePoints') # Len(irradiancePoints) =>
              prePc = "wait" /\ ~TasksFinished
      ]_vars

\* Preprocess has returned with two lit points in the initialised hierarchy.
C9_Witness ==
    /\ prePc = "returned"
    /\ octree # NullTree
    /\ Len(octree[RootPath].ips) = 2
    /\ ~IsZero(octree[RootPath].E)
    /\ ~IsZero(octree[RootPath].sumArea)

(***************************************************************************)
(* The irradiance cache under concurrent queries                           *)
(***************************************************************************)
InLookup(t) == cpc[t] \in {"lookup", "interpolated"}
InAdd(t) == cpc[t] \in {"add", "adding"}

\* C2: an Add never runs while a Lookup or another Add is in progress:
\* the thread in Add holds the mutex in write mode, a thread in Lookup holds
\* it in read mode, from before the Lookup until after it.
C2_AddExcludesLookup ==
    \A t \in Threads :
        /\ InAdd(t) =>
              /\ cacheMutex.writer = t
              /\ \A u \in Threads \ {t} : ~InLookup(u) /\ ~InAdd(u)
        /\ InLookup(t) => t \in cacheMutex.readers /\ cacheMutex.writer = NoTask

\* Every thread is inside Lookup at once, over a cache that holds a record.
C2_WitnessLookupsOverlap ==
    /\ \A t \in Threads : cpc[t] = "lookup"
    /\ Len(cache) > 0

\* C2, the Add side: a thread is inside Add while another one waits for the
\* read lock and a third party's record is already in the cache.
C2_Witness ==
    \E t, u \in Threads :
        /\ cpc[t] = "adding"
        /\ cpc[u] = "interpolateE"
        /\ Len(cache) > 1

CountIn(s, x) == Cardinality({i \in 1 .. Len(s) : s[i] = x})
SameRecords(s1, s2) ==
    /\ Len(s1) = Len(s2)
    /\ \A i \in 1 .. Len(s1) : CountIn(s1, s1[i]) = CountIn(s2, s1[i])

\* the records of the cache
Records(oct) == [i \in 1 .. Len(oct) |-> oct[i].data]

RECURSIVE SerialRun(_, _, _)
\* the cache after the queries qs[i ..] ran one after the other on oct
SerialRun(oct, qs, i) ==
    IF i > Len(qs) THEN oct
    ELSE LET q == CacheQueries[qs[i]]
             pr == LookupFrom(oct, NewIrradProcess(q.p, q.n, minWeight,
                                  cosMaxSampleAngleDifference), 1)
             smp == NewIrradianceSample(q)
         IN SerialRun(IF Successful(pr) THEN oct
                      ELSE OctreeAddEnd(
                               OctreeAddBegin(oct, smp,
                                   SampleExtent(smp.p, smp.maxDist)),
                               Len(oct) + 1),
                      qs, i + 1)

\* the orders in which the queries started so far can run serially
SerialOrders ==
    {qs \in [1 .. SumOver(issued, QueryIds) -> QueryIds] :
        \A q \in QueryIds : CountIn(qs, q) = issued[q]}

Quiescent == \A t \in Threads : cpc[t] = "idle"

\* C3 as stated: when the queries are through, the records are a
\* permutation of those some serial run of the same queries produces, and
\* no lookup was handed a partly written record.
C3_PermutationOfSerial ==
    /\ ~torn
    /\ (Quiescent /\ ~destroyed) =>
          \E qs \in SerialOrders :
              SameRecords(Records(cache), Records(SerialRun(<<>>, qs, 1)))

\* C3: no lookup is handed a partly written record, every record is the
\* whole IrradianceSample of a query that missed, and when the queries are
\* through there is exactly one record for each miss - which a serial run
\* need not produce, since overlapping queries can all miss.
C3_OneRecordPerMiss ==
    /\ ~torn
    /\ ~destroyed =>
          /\ \A q \in QueryIds :
                LET n == CountIn(Records(cache),
                                 NewIrradianceSample(CacheQueries[q]))
                IN n <= missed[q] /\ (Quiescent => n = missed[q])
          /\ \A i \in 1 .. Len(cache) :
                /\ \E q \in QueryIds :
                      cache[i].data = NewIrradianceSample(CacheQueries[q])
                /\ cache[i].bound = SampleExtent(cache[i].data.p,
                                                 cache[i].data.maxDist)
                /\ ~cache[i].written =>
                      \E t \in Threads : cpc[t] = "adding" /\ slot[t] = i

\* Two overlapping queries at the same point have both missed and both
\* added their record.
C3_Witness ==
    /\ Quiescent
    /\ ~destroyed
    /\ \E i, j \in 1 .. Len(cache) :
          i # j /\ cache[i].data = cache[j].data
                /\ cache[i].written /\ cache[j].written

\* C10: a record in the octree never changes - not by a lookup and its
\* visitor, not by an insertion - and the records only grow in number until
\* the integrator is destroyed.
C10_RecordsImmutable ==
    [][\/ ~destroyed /\ destroyed'
       \/ /\ Len(cache') >= Len(cache)
          /\ \A i \in 1 .. Len(cache) :
                /\ cache'[i].data = cache[i].data
                /\ cache'[i].bound = cache[i].bound
                /\ cache[i].written => cache'[i].written
      ]_vars

\* A lookup over two records has found both and interpolated from them.
C10_Witness ==
    \E t \in Threads :
        /\ cpc[t] = "interpolated"
        /\ proc[t].nFound = 2
        /\ Successful(proc[t])
        /\ Len(cache) >= 2

(***************************************************************************)
(* The interpolation of the irradiance cache                               *)
(***************************************************************************)
\* the errors e_p and e_n of the record smp for a query at p with normal n
PositionError(p, smp) == FDiv(Distance(p, smp.p), smp.maxDist)
NormalError(n, smp) ==
    Sqrt(FDiv(FSub(F(1), F(Dot(n, smp.n))),
              FSub(F(1), cosMaxSampleAngleDifference)))
RecordError(p, n, smp) == FMax(PositionError(p, smp), NormalError(n, smp))

\* 1 - e for a record with e < 1, and 0 for any other
RecordWeight(p, n, smp) ==
    IF FLess(RecordError(p, n, smp), F(1))
    THEN FSub(F(1), RecordError(p, n, smp)) ELSE F(0)

RECURSIVE SumWeights(_, _, _, _)
SumWeights(oct, S, p, n) ==
    IF S = {} THEN F(0)
    ELSE LET i == CHOOSE j \in S : TRUE
         IN FAdd(RecordWeight(p, n, oct[i].data), SumWeights(oct, S \ {i}, p, n))

RECURSIVE SumWeightedE(_, _, _, _)
SumWeightedE(oct, S, p, n) ==
    IF S = {} THEN F(0)
    ELSE LET i == CHOOSE j \in S : TRUE
         IN FAdd(FMul(RecordWeight(p, n, oct[i].data), oct[i].data.E),
                 SumWeightedE(oct, S \ {i}, p, n))

RECURSIVE SumWeightedDir(_, _, _, _)
SumWeightedDir(oct, S, p, n) ==
    IF S = {} THEN FPoint(<<0, 0, 0>>)
    ELSE LET i == CHOOSE j \in S : TRUE
             rest == SumWeightedDir(oct, S \ {i}, p, n)
             w == RecordWeight(p, n, oct[i].data)
         IN [k \in 1 .. 3 |-> FAdd(rest[k], FMul(w, oct[i].data.wAvg[k]))]

\* C11: when the Lookup of interpolateE is over, the weights it summed are
\* 1 - e for each visited record with e = max(e_p, e_n) < 1 and nothing for
\* the others; interpolateE succeeds iff the sum reaches minWeight, and then
\* returns E = (sum of w E) / (sum of w) and the direction sum of w wAvg,
\* which is not normalised.
C11_Interpolation ==
    \A t \in Threads :
        cpc[t] = "interpolated" =>
            LET V == OctreeLookup(cache, query[t].p)
                sw == SumWeights(cache, V, query[t].p, query[t].n)
            IN /\ proc[t].sumWt = sw
               /\ proc[t].nFound =
                      Cardinality({i \in V : FLess(RecordError(query[t].p,
                                       query[t].n, cache[i].data), F(1))})
               /\ Successful(proc[t]) <=>
                      sw.n * minWeight.d >= minWeight.n * sw.d
               /\ Successful(proc[t]) =>
                     /\ GetIrradiance(proc[t]) =
                            FDiv(SumWeightedE(cache, V, query[t].p, query[t].n), sw)
                     /\ proc[t].wAvg =
                            SumWeightedDir(cache, V, query[t].p, query[t].n)

\* an interpolation succeeds with a sum of weights below 1 over two visited
\* records, one of them with e >= 1
C11_Witness ==
    \E t \in Threads :
        /\ cpc[t] = "interpolated"
        /\ Successful(proc[t])
        /\ Cardinality(OctreeLookup(cache, query[t].p)) = 2
        /\ proc[t].nFound = 1
        /\ FLess(proc[t].sumWt, F(1))

\* the IrradProcess of a query at p with normal n after the visit of smp alone
AloneVisit(p, n, smp) ==
    VisitSample(NewIrradProcess(p, n, minWeight, cosMaxSampleAngleDifference), smp)

\* the normals of the queries
QueryNormals == {<<0, 0, 1>>, <<0, 0, -1>>}

\* C12: a query at exactly the position of a record of the cache, with its
\* normal, finds the error 0 and gives the record the weight 1, so that with
\* this record alone the interpolation succeeds and returns exactly the E of
\* the record; and a record with e_p < 1 and e_n < 1 at any query has a
\* weight above 0.
C12_ExactHit ==
    \A i \in 1 .. Len(cache) :
        cache[i].written =>
            LET smp == cache[i].data
                pr == AloneVisit(smp.p, smp.n, smp)
            IN /\ RecordError(smp.p, smp.n, smp) = F(0)
               /\ pr.nFound = 1
               /\ pr.sumWt = F(1)
               /\ Successful(pr)
               /\ GetIrradiance(pr) = smp.E
               /\ \A q \in QueryPoints, n \in QueryNormals :
                      (FLess(PositionError(q, smp), F(1))
                          /\ FLess(NormalError(n, smp), F(1)))
                         => FPositive(AloneVisit(q, n, smp).sumWt)

\* C15: a miss with the pixel spacing 0 ends with a record in the cache, and
\* no interpolation that visits a record divides by zero: the maxDist that
\* operator() divides the distance by is not 0 and the error it computes is
\* a number.
C15_NoDivisionByZero ==
    \A t \in Threads :
        cpc[t] = "interpolated" =>
            \A i \in OctreeLookup(cache, query[t].p) :
                /\ ~IsZero(cache[i].data.maxDist)
                /\ ~IsNaN(PositionError(query[t].p, cache[i].data))

(***************************************************************************)
(* The cache miss of indirectLo                                            *)
(***************************************************************************)
\* what a step of thread t does to the cache, by where indirectLo is
CallStep(t) ==
    \* a call whose BSDF has no component of the flags does not go on
    /\ cpc'[t] # "idle" => query'[t].components
    \* a call whose interpolation succeeds returns and has added nothing
    /\ (cpc[t] = "interpolated" /\ cpc'[t] = "idle") =>
          Successful(proc[t]) /\ slot[t] = 0 /\ cache' = cache
    \* only a call whose interpolation fails goes on to compute a record
    /\ (cpc[t] # "compute" /\ cpc'[t] = "compute") =>
          cpc[t] = "interpolated" /\ ~Successful(proc[t]) /\ slot[t] = 0
    \* and it returns after the Add of the one record it has computed
    /\ (cpc[t] \notin {"idle", "interpolated"} /\ cpc'[t] = "idle") =>
          /\ cpc[t] = "adding"
          /\ Len(cache') = Len(cache)
          /\ cache'[slot[t]].written
          /\ cache'[slot[t]].data = NewIrradianceSample(query[t])

\* C13: a call of indirectLo with a matching BSDF component whose
\* interpolation fails adds exactly one record, the one it has computed,
\* before it returns; a call whose interpolation succeeds, or whose BSDF has
\* no matching component, adds none.
C13_RecordAddedIffMiss ==
    [][/\ \A t \in Threads : CallStep(t)
       /\ (issued' # issued /\ cpc' = cpc) => cache' = cache
       /\ Len(cache') # Len(cache) =>
             /\ Len(cache') = Len(cache) + 1
             /\ \E t \in Threads :
                   /\ cpc[t] = "add"
                   /\ slot[t] = 0
                   /\ slot'[t] = Len(cache')]_vars

\* one call has missed and added its record, the next has found it, and one
\* has returned for want of a BSDF component
C13_Witness ==
    /\ \A t \in Threads : cpc[t] = "idle"
    /\ Len(cache) = 1
    /\ cache[1].written
    /\ issued[1] = 2
    /\ missed[1] = 1
    /\ issued[8] = 1

\* the least of the distances the rays have traversed
LeastDistance(dists) ==
    CHOOSE d \in {dists[i] : i \in DOMAIN dists} :
        \A i \in DOMAIN dists : ~FLess(dists[i], d)

\* x clamped to [lo, hi]
Clamp(x, lo, hi) == IF FLess(x, lo) THEN lo ELSE IF FLess(hi, x) THEN hi ELSE x

\* C14: the record that a miss adds has the validity radius
\* minHitDistance / 2 clamped to [minSamplePixelSpacing * pixelSpacing,
\* maxSamplePixelSpacing * pixelSpacing], where minHitDistance is the least
\* distance that the sample rays have traversed, INFINITY when none hits; it
\* is added with the box of that half-width around p.
C14_ValidityRadius ==
    \A t \in Threads :
        cpc[t] = "adding" =>
            LET q == query[t]
                r == Clamp(FDiv(LeastDistance(q.rayDist), F(2)),
                           FMul(minSamplePixelSpacing, F(q.pixelSpacing)),
                           FMul(maxSamplePixelSpacing, F(q.pixelSpacing)))
                e == cache[slot[t]]
            IN /\ e.data.maxDist = r
               /\ e.data.p = q.p
               /\ \A k \in 1 .. 3 :
                     /\ e.bound.pMin[k] * r.d = (q.p[k] * r.d - r.n) * e.bound.den
                     /\ e.bound.pMax[k] * r.d = (q.p[k] * r.d + r.n) * e.bound.den

\* records are in the cache with the radius of the upper bound, for rays
\* that hit nothing, of the lower bound, and of half a hit distance between
C14_Witness ==
    /\ \E t \in Threads : cpc[t] = "adding"
    /\ {cache[i].data.maxDist : i \in 1 .. Len(cache)} = {F(15), F(4), Frac(5, 2)}

(***************************************************************************)
(* The priming of the irradiance cache                                     *)
(***************************************************************************)
\* C16: while Preprocess primes the cache, each query of a priming task
\* sees minWeight at 1.5 times the value it was configured with; Preprocess
\* changes it back only when all the priming tasks have ended, and when it
\* returns minWeight is again the value it had before the priming.
C16_MinWeightRestored ==
    /\ \A t \in Threads :
          (primeThread[t] # 0 /\ cpc[t] \in {"lookup", "interpolated"}) =>
              proc[t].minWeight = TimesOneAndHalf(weightBefore)
    /\ (primePc = "wait" /\ \E k \in PrimeTasks : primeTasks[k] # "done") =>
          minWeight = TimesOneAndHalf(weightBefore)
    /\ primePc = "returned" => minWeight = weightBefore

(***************************************************************************)
(* The spatial octree                                                      *)
(***************************************************************************)
\* the payloads whose region contains the point of the last Lookup
Containing == {i \in 1 .. Len(spatialOctree.items) :
                  Inside(spatialOctree.items[i].bound, lastLookup.p)}

\* how often the last Lookup handed payload i to the visitor
TimesVisited(i) ==
    Cardinality({j \in 1 .. Len(lastLookup.visits) : lastLookup.visits[j] = i})

\* the visitor returned false for the payload of visit j
Stopped(j) ==
    ~VisitorContinues(spatialOctree.kind, lastLookup.p,
                      spatialOctree.items[lastLookup.visits[j]])

\* C17 as stated: after Add(payload, r), whatever was added before and
\* after, every Lookup(q) with q in r hands the payload to the visitor
\* exactly once.
C17_VisitedExactlyOnce ==
    lastLookup # <<>> => \A i \in Containing : TimesVisited(i) = 1

\* C17 as amended: no Lookup hands a payload to the visitor twice; a Lookup
\* ends at the first payload for which the visitor returns false; and a
\* Lookup(q) that the visitor does not end hands every payload added with a
\* region that contains q to the visitor exactly once.
C17_VisitedOnceUnlessStopped ==
    lastLookup # <<>> =>
        /\ \A i \in 1 .. Len(spatialOctree.items) : TimesVisited(i) <= 1
        /\ \A j \in 1 .. Len(lastLookup.visits) :
              Stopped(j) => j = Len(lastLookup.visits)
        /\ (\A j \in 1 .. Len(lastLookup.visits) : ~Stopped(j)) =>
              \A i \in Containing : TimesVisited(i) = 1

\* a Lookup on a face of three regions, added at different depths, has
\* visited the three payloads
C17_Witness ==
    /\ lastLookup # <<>>
    /\ Cardinality(Containing) = 3
    /\ Len(lastLookup.visits) = 3
    /\ Cardinality({Len(path) : path \in {q \in DOMAIN spatialOctree.nodes :
                        spatialOctree.nodes[q] # <<>>}}) >= 2

(***************************************************************************)
(* The cluster hierarchy of a scene with many sample points: Preprocess    *)
(* from the end of the irradiance loop on, the Poisson tasks having        *)
(* deposited the first points of ClusterPoints.                            *)
(***************************************************************************)
\* the most sample points the tasks have deposited
MaxPoints == 10

\* sample points whose mutual distance is at least minSampleDist; nine of
\* the first ten fall into the lower octant of their bounding box
ClusterPoints ==
    <<<<8, 8, 8>>, <<0, 0, 0>>, <<2, 0, 0>>, <<0, 2, 0>>, <<2, 2, 0>>,
      <<0, 0, 2>>, <<2, 0, 2>>, <<0, 2, 2>>, <<2, 2, 2>>, <<4, 0, 0>>,
      <<0, -2, 0>>>>

\* how the light is spread over the points: even; one bright point; bright
\* and dim in turn; every third point unlit; the first point unlit
Lightings == {"even", "spot", "stripes", "shadows", "eclipse"}

\* the E of the i-th point after the irradiance loop, a member of Irradiances
Irradiance(lighting, i) ==
    CASE lighting = "even" -> 1
      [] lighting = "spot" -> IF i = 1 THEN 3 ELSE 1
      [] lighting = "stripes" -> IF i % 2 = 1 THEN 1 ELSE 3
      [] lighting = "shadows" -> IF i % 3 = 0 THEN 0 ELSE 1
      [] lighting = "eclipse" -> IF i = 1 THEN 0 ELSE 3

\* irradiancePoints and pointOctree when the tasks have deposited n points
DepositedPoints(n, lighting) ==
    [i \in 1 .. n |-> [NewPoint(ClusterPoints[i]) EXCEPT !.E = Irradiance(lighting, i)]]

DepositedOctree(n) ==
    [i \in 1 .. n |-> [data |-> NewPoint(ClusterPoints[i]),
                       bound |-> PointBound(ClusterPoints[i])]]

\* the tasks have returned and the irradiance loop has ended
ClusterInit ==
    /\ \E n \in 0 .. MaxPoints, lighting \in Lightings :
          /\ bssrdfSurface = {ClusterPoints[i] : i \in 1 .. n}
          /\ irradiancePoints = DepositedPoints(n, lighting)
          /\ pointOctree = DepositedOctree(n)
          /\ numPointsAdded = n
          /\ repeatedFails = (IF n = 0 THEN 0 ELSE maxFails)
          /\ maxRepeatedFails = (IF n = 0 THEN 0 ELSE maxFails)
          /\ totalPathsTraced = PathsPerBatch * (n + maxFails + 1)
          /\ warned = (n = 0)
          /\ loopIndex = n + 1
    /\ nLights = 1
    /\ prePc = "irradiance"
    /\ mutex = FreeMutex
    /\ pc = [w \in Workers |-> "done"]
    /\ candidates = [w \in Workers |-> <<>>]
    /\ candidateRejected = [w \in Workers |-> <<>>]
    /\ octree = NullTree
    /\ octreeBounds = EmptyBBox
    /\ CacheIdle
    /\ CoreIdle
    /\ TraceIdle

ClusterNext == CreateOctree \/ InsertPoint \/ InitHierarchyRoot

ClusterSpec == ClusterInit /\ [][ClusterNext]_vars

\* the nodes of the cluster hierarchy, and the points below a node
ClusterNodes == DOMAIN octree

IsPrefix(path, other) ==
    Len(path) <= Len(other) /\ SubSeq(other, 1, Len(path)) = path

SubtreePoints(path) ==
    UNION {{octree[n].ips[k] : k \in 1 .. Len(octree[n].ips)} :
              n \in {m \in ClusterNodes : IsPrefix(path, m)}}

\* the points Preprocess has handed to Insert
InsertedPoints ==
    {i \in 1 .. Len(irradiancePoints) : irradiancePoints[i].E > 0}

RECURSIVE FSum(_, _)
\* the exact sum of f over the finite set S
FSum(f, S) ==
    IF S = {} THEN F(0)
    ELSE LET x == CHOOSE y \in S : TRUE
         IN FAdd(f[x], FSum(f, S \ {x}))

\* C18: after InitHierarchy every leaf's sumArea is the sum of the areas of
\* the points it stores, every interior node's sumArea is the sum of the
\* sumArea of its children, and so the root's sumArea is the total area of
\* the points inserted into the tree.
C18_SumArea ==
    prePc = "returned" =>
        /\ \A n \in ClusterNodes :
              IF octree[n].isLeaf
              THEN octree[n].sumArea =
                       FSum([k \in 1 .. Len(octree[n].ips) |->
                                F(irradiancePoints[octree[n].ips[k]].area)],
                            1 .. Len(octree[n].ips))
              ELSE octree[n].sumArea =
                       FSum([c \in octree[n].children |->
                                octree[Append(n, c)].sumArea],
                            octree[n].children)
        /\ octree[RootPath].sumArea =
               FSum([i \in InsertedPoints |-> F(irradiancePoints[i].area)],
                    InsertedPoints)

\* a hierarchy of three levels has been initialised
C18_Witness ==
    /\ prePc = "returned"
    /\ \E n \in ClusterNodes :
          /\ Len(n) = 1
          /\ ~octree[n].isLeaf
          /\ Cardinality(octree[n].children) = 2
    /\ Cardinality(InsertedPoints) = 10

\* C19: for every node of the built hierarchy that holds a point, the cached
\* E is the average irradiance of the points of the node's subtree, so that
\* (the areas of the points being equal) E times sumArea is the sum of
\* E_i * area_i over those points.
C19_AverageIrradiance ==
    prePc = "returned" =>
        \A n \in ClusterNodes :
            LET S == SubtreePoints(n)
            IN S # {} =>
                  /\ octree[n].E =
                         FDiv(FSum([i \in S |-> F(irradiancePoints[i].E)], S),
                              F(Cardinality(S)))
                  /\ FMul(octree[n].E, octree[n].sumArea) =
                         FSum([i \in S |-> FMul(F(irradiancePoints[i].E),
                                                F(irradiancePoints[i].area))], S)

\* sum over the inserted points of Rd(|pt - p_i|^2) * E_i * area_i
DirectMo(pt) ==
    FSum([i \in InsertedPoints |->
             FMul(FMul(Rd(F(DistanceSquared(pt, irradiancePoints[i].p))),
                       F(irradiancePoints[i].E)),
                  F(irradiancePoints[i].area))],
         InsertedPoints)

\* C20: with maxError = 0 the error test accepts no cluster, and Mo at any
\* query point is the sum over the inserted points of
\* Rd(|p - p_i|^2) * E_i * area_i, each point counted exactly once.
C20_ExactMo ==
    prePc = "returned" =>
        \A pt \in QueryPoints :
            Mo(octree, RootPath, octreeBounds, pt, F(0), irradiancePoints)
                = DirectMo(pt)

\* Mo of a hierarchy of three levels differs from what the root gives as a
\* single cluster
C20_Witness ==
    /\ prePc = "returned"
    /\ Cardinality(ClusterNodes) >= 5
    /\ \E pt \in QueryPoints :
          LET exact == Mo(octree, RootPath, octreeBounds, pt, F(0),
                          irradiancePoints)
              root == octree[RootPath]
          IN /\ FPositive(exact)
             /\ exact # FMul(FMul(Rd(FDistanceSquared(FPoint(pt), root.p)),
                                  root.E), root.sumArea)

RECURSIVE NodeBound(_)
\* the bounds Mo is handed for the node at path, from octreeBounds down
NodeBound(path) ==
    IF path = RootPath THEN octreeBounds
    ELSE octreeChildBound(path[Len(path)],
                          NodeBound(SubSeq(path, 1, Len(path) - 1)))

\* Rd(d^2) * E * sumArea of the node at path, and sumArea / d^2
Aggregate(path, pt) ==
    LET node == octree[path]
        d2 == FDistanceSquared(FPoint(pt), node.p)
    IN FMul(FMul(Rd(d2), node.E), node.sumArea)

SolidAngle(path, pt) ==
    FDiv(octree[path].sumArea, FDistanceSquared(FPoint(pt), octree[path].p))

\* what Mo adds up when it expands the node at path
Expansion(path, pt, maxError) ==
    IF octree[path].isLeaf
    THEN LeafMo(octree[path].ips, 1, pt, irradiancePoints)
    ELSE ChildrenMo(octree, path, NodeBound(path), 0, pt, maxError,
                    irradiancePoints)

\* C21: Mo replaces a node by its aggregate only when sumArea / d^2 is below
\* maxError and the query point is outside the node's bounds; a node whose
\* bounds contain the query point is expanded whatever maxError is.
C21_AggregateOnlyOutside ==
    prePc = "returned" =>
        \A n \in ClusterNodes, pt \in QueryPoints, maxError \in MaxErrors :
            LET mo == Mo(octree, n, NodeBound(n), pt, maxError,
                         irradiancePoints)
            IN /\ Inside(NodeBound(n), pt) => mo = Expansion(n, pt, maxError)
               /\ mo # Expansion(n, pt, maxError) =>
                     /\ mo = Aggregate(n, pt)
                     /\ FLess(SolidAngle(n, pt), maxError)
                     /\ ~Inside(NodeBound(n), pt)

\* the root contains the query point and passes the error test, and is
\* expanded; one of its children is replaced by its aggregate
C21_Witness ==
    /\ prePc = "returned"
    /\ \E pt \in QueryPoints, maxError \in MaxErrors :
          /\ Inside(NodeBound(RootPath), pt)
          /\ FLess(SolidAngle(RootPath, pt), maxError)
          /\ Aggregate(RootPath, pt) # Expansion(RootPath, pt, maxError)
          /\ \E c \in octree[RootPath].children :
                /\ ~Inside(NodeBound(<<c>>), pt)
                /\ Mo(octree, <<c>>, NodeBound(<<c>>), pt, maxError,
                      irradiancePoints) = Aggregate(<<c>>, pt)
                /\ Aggregate(<<c>>, pt) # Expansion(<<c>>, pt, maxError)

(***************************************************************************)
(* Distribution1D (core/montecarlo.h).  func and cdf keep the indices of   *)
(* the arrays: func over 0 .. count-1, cdf over 0 .. count.                *)
(***************************************************************************)
\* the most samples of a tabulated function
MaxBins == 4
\* the values of the samples
SampleValues == {0, 1, 3}

\* the tabulated functions handed to the constructor: non-negative, not all
\* zero (the callers check that funcInt is not 0)
TabulatedFunctions ==
    {f \in UNION {[0 .. n - 1 -> SampleValues] : n \in 1 .. MaxBins} :
        \E i \in DOMAIN f : f[i] > 0}

RECURSIVE StepIntegral(_, _, _)
\* "cdf[i] = cdf[i-1] + f[i-1] / n", cdf[0] = 0
StepIntegral(f, n, i) ==
    IF i = 0 THEN F(0)
    ELSE FAdd(StepIntegral(f, n, i - 1), FDiv(F(f[i - 1]), F(n)))

\* the constructor that leaves the step integral as it is
Distribution1DUnnormalised(f, n) ==
    [count |-> n,
     func |-> [i \in 0 .. n - 1 |-> F(f[i])],
     funcInt |-> StepIntegral(f, n, n),
     cdf |-> [i \in 0 .. n |-> StepIntegral(f, n, i)]]

\* Distribution1D::Distribution1D(const float *f, int n)
Distribution1D(f, n) ==
    LET funcInt == StepIntegral(f, n, n)
    IN [count |-> n,
        func |-> [i \in 0 .. n - 1 |-> F(f[i])],
        funcInt |-> funcInt,
        cdf |-> [i \in 0 .. n |->
                    IF i = 0 THEN F(0)
                    ELSE FDiv(StepIntegral(f, n, i), funcInt)]]

RECURSIVE lower_bound(_, _, _, _)
\* std::lower_bound over cdf[first .. first+len-1]: the binary search for
\* the first element that is not less than u
lower_bound(cdf, first, len, u) ==
    IF len <= 0 THEN first
    ELSE LET half == len \div 2
             middle == first + half
         IN IF FLess(cdf[middle], u)
            THEN lower_bound(cdf, middle + 1, len - half - 1, u)
            ELSE lower_bound(cdf, first, half, u)

\* the search for the first element that is greater than u
SegmentOffsetUpper(d, u) ==
    Max(0, (CHOOSE i \in 0 .. d.count + 1 :
               /\ i <= d.count => FLess(u, d.cdf[i])
               /\ \A j \in 0 .. i - 1 : ~FLess(u, d.cdf[j])) - 1)

\* "ptr = std::lower_bound(cdf, cdf+count+1, u);
\*  offset = max(0, int(ptr-cdf-1))"
SegmentOffset(d, u) == Max(0, lower_bound(d.cdf, 0, d.count + 1, u) - 1)

\* Distribution1D::SampleContinuous
SampleContinuous(d, u) ==
    LET offset == SegmentOffset(d, u)
        du == FDiv(FSub(u, d.cdf[offset]),
                   FSub(d.cdf[offset + 1], d.cdf[offset]))
    IN [kind |-> "continuous", u |-> u, offset |-> offset,
        pdf |-> FDiv(d.func[offset], d.funcInt),
        x |-> FDiv(FAdd(F(offset), du), F(d.count))]

\* Distribution1D::SampleDiscrete
SampleDiscrete(d, u) ==
    LET offset == SegmentOffset(d, u)
    IN [kind |-> "discrete", u |-> u, offset |-> offset,
        pdf |-> FDiv(d.func[offset], d.funcInt),
        x |-> F(offset)]

\* the random numbers of [0,1) handed to a sample call: the entries of the
\* cdf and the midpoints of its segments
SampleInputs(d) ==
    {u \in {d.cdf[i] : i \in 0 .. d.count - 1}
           \cup {FDiv(FAdd(d.cdf[i], d.cdf[i + 1]), F(2)) :
                    i \in 0 .. d.count - 1} :
        FLess(u, F(1))}

SampleContinuousCall ==
    /\ distribution # <<>>
    /\ \E u \in SampleInputs(distribution) :
          lastSample' = SampleContinuous(distribution, u)
    /\ UNCHANGED <<traceVars, dipoleVars, cacheVars, distribution, stream, shading>>

SampleDiscreteCall ==
    /\ distribution # <<>>
    /\ \E u \in SampleInputs(distribution) :
          lastSample' = SampleDiscrete(distribution, u)
    /\ UNCHANGED <<traceVars, dipoleVars, cacheVars, distribution, stream, shading>>

\* a Distribution1D has been constructed
DistributionInit ==
    /\ \E f \in TabulatedFunctions :
          distribution = Distribution1D(f, Cardinality(DOMAIN f))
    /\ lastSample = <<>>
    /\ stream = <<>>
    /\ shading = <<>>
    /\ bssrdfSurface = {}
    /\ nLights = 0
    /\ DipoleIdle
    /\ TraceIdle
    /\ CacheIdle

DistributionNext == SampleContinuousCall \/ SampleDiscreteCall

DistributionSpec == DistributionInit /\ [][DistributionNext]_vars

\* the bins of the distribution
Bins == 0 .. distribution.count - 1

\* C22: a Distribution1D built from n non-negative samples, one of them
\* positive, has funcInt = (sum of the samples) / n, cdf[0] = 0, cdf[n] = 1,
\* and a non-decreasing cdf with cdf[i+1] - cdf[i] = f[i] / (n * funcInt).
C22_Construction ==
    LET d == distribution
        n == d.count
    IN /\ d.funcInt = FDiv(FSum(d.func, Bins), F(n))
       /\ d.cdf[0] = F(0)
       /\ d.cdf[n] = F(1)
       /\ \A i \in Bins :
             /\ ~FLess(d.cdf[i + 1], d.cdf[i])
             /\ FSub(d.cdf[i + 1], d.cdf[i]) =
                    FDiv(d.func[i], FMul(F(n), d.funcInt))

\* a function of MaxBins samples, some of them zero and the others unequal
C22_Witness ==
    /\ distribution.count = MaxBins
    /\ \E i, j, k \in Bins :
          /\ IsZero(distribution.func[i])
          /\ FLess(distribution.func[j], distribution.func[k])
          /\ FPositive(distribution.func[j])
    /\ distribution.funcInt # F(1)

\* a <= b
FLessEq(a, b) == FLess(a, b) \/ a = b

\* C23: for u in [0,1) SampleContinuous selects the segment of the cdf that
\* holds u (the largest index i with cdf[i] <= u, and the lower index when u
\* ties with an entry of the cdf), returns
\* x = (i + (u - cdf[i]) / (cdf[i+1] - cdf[i])) / n and pdf = f[i] / funcInt;
\* for a constant positive f it returns x = u and pdf = 1.
C23_SampleContinuous ==
    (lastSample # <<>> /\ lastSample.kind = "continuous") =>
        LET d == distribution
            u == lastSample.u
            i == lastSample.offset
        IN /\ i \in Bins
           /\ FLessEq(d.cdf[i], u) /\ FLessEq(u, d.cdf[i + 1])
           /\ \A j \in Bins :
                 /\ j < i => FLess(d.cdf[j + 1], u)
                 /\ (j > i /\ FLessEq(d.cdf[j], u)) => d.cdf[j] = u
           /\ lastSample.x =
                  FDiv(FAdd(F(i), FDiv(FSub(u, d.cdf[i]),
                                       FSub(d.cdf[i + 1], d.cdf[i]))),
                       F(d.count))
           /\ lastSample.pdf = FDiv(d.func[i], d.funcInt)
           /\ (\A j \in Bins : d.func[j] = d.func[0]) =>
                 lastSample.x = u /\ lastSample.pdf = F(1)

\* u ties with an inner entry of the cdf, between two bins of unequal
\* positive value, and the lower bin is selected
C23_Witness ==
    /\ lastSample # <<>>
    /\ lastSample.kind = "continuous"
    /\ \E i \in Bins :
          /\ i + 1 \in Bins
          /\ lastSample.u = distribution.cdf[i + 1]
          /\ lastSample.offset = i
          /\ FPositive(distribution.func[i])
          /\ FLess(distribution.func[i], distribution.func[i + 1])
          /\ lastSample.x = FDiv(F(i + 1), F(distribution.count))

\* the pdf SampleDiscrete reports for bin j: that of a sample in the middle
\* of the bin's segment of the cdf, and 0 for a bin no sample falls in
ReportedPdf(j) ==
    LET d == distribution
        s == SampleDiscrete(d, FDiv(FAdd(d.cdf[j], d.cdf[j + 1]), F(2)))
    IN IF IsZero(d.func[j]) THEN F(0) ELSE s.pdf

\* C24: SampleDiscrete(u) returns a bin index i in [0, n-1] together with
\* pdf = f[i] / (n * funcInt), so that the reported pdfs of the n bins sum
\* to 1.
C24_SampleDiscrete ==
    (lastSample # <<>> /\ lastSample.kind = "discrete") =>
        LET d == distribution
            i == lastSample.offset
        IN /\ i \in Bins
           /\ lastSample.pdf = FDiv(d.func[i], FMul(F(d.count), d.funcInt))
           /\ FSum([j \in Bins |-> ReportedPdf(j)], Bins) = F(1)

\* C25: SampleContinuous never lands in a bin whose function value is zero:
\* for every u in [0,1) the returned x lies inside a bin i with f[i] > 0 and
\* the reported pdf is f[i] / funcInt > 0.
C25_NeverInZeroBin ==
    (lastSample # <<>> /\ lastSample.kind = "continuous") =>
        \E i \in Bins :
            /\ FPositive(distribution.func[i])
            /\ FLessEq(FDiv(F(i), F(distribution.count)), lastSample.x)
            /\ FLessEq(lastSample.x, FDiv(F(i + 1), F(distribution.count)))
            /\ lastSample.pdf = FDiv(distribution.func[i], distribution.funcInt)
            /\ FPositive(lastSample.pdf)

\* C27: InitHierarchy divides by the populated count: a leaf's E is the sum
\* of its stored points' E divided by the number of populated slots (not by
\* 8), an interior node's E is the sum of its non-null children's E divided
\* by the number of non-null children.
C27_PopulatedCount ==
    prePc = "returned" =>
        \A n \in ClusterNodes :
            LET node == octree[n]
            IN IF node.isLeaf
               THEN node.E =
                        FDiv(FSum([k \in 1 .. Len(node.ips) |->
                                      F(irradiancePoints[node.ips[k]].E)],
                                  1 .. Len(node.ips)),
                             F(Len(node.ips)))
               ELSE node.E =
                        FDiv(FSum([c \in node.children |->
                                      octree[Append(n, c)].E],
                                  node.children),
                             F(Cardinality(node.children)))

\* a leaf of fewer than eight points and an interior node of fewer than
\* eight children, lit
C27_Witness ==
    /\ prePc = "returned"
    /\ \E n, m \in ClusterNodes :
          /\ octree[n].isLeaf
          /\ Len(octree[n].ips) \in 1 .. 7
          /\ ~octree[m].isLeaf
          /\ Cardinality(octree[m].children) \in 2 .. 7
          /\ FPositive(octree[n].E)
          /\ FPositive(octree[m].E)

\* the points Preprocess has handed to Insert so far
InsertedSoFar ==
    {i \in 1 .. Min(loopIndex - 1, Len(irradiancePoints)) :
        irradiancePoints[i].E > 0}

\* the leaves of the tree that store point i, with the slot
StoredAt(i) ==
    {<<n, k>> \in UNION {{<<m, j>> : j \in 1 .. Len(octree[m].ips)} :
                            m \in {l \in ClusterNodes : octree[l].isLeaf}} :
        octree[n].ips[k] = i}

\* the coordinate of p lies above the middle of the bounds b
AboveMiddle(b, p, k) == 2 * b.den * p[k] > b.pMin[k] + b.pMax[k]

\* the child index leads to the octant on p's side of the midpoint of b
IsOctantOf(child, b, p) ==
    /\ ((child \div 4) % 2 = 1) <=> AboveMiddle(b, p, 1)
    /\ ((child \div 2) % 2 = 1) <=> AboveMiddle(b, p, 2)
    /\ (child % 2 = 1) <=> AboveMiddle(b, p, 3)

\* C28: after any sequence of Insert calls every leaf holds at most 8
\* points; every inserted point is stored in exactly one leaf; that leaf is
\* reached from the root by taking at each interior node the octant given
\* by comparing the point with the node's midpoint, and the point lies
\* inside the leaf's bounds.
C28_InsertPlacement ==
    prePc \in {"insert", "returned"} =>
        /\ \A n \in ClusterNodes :
              /\ Len(octree[n].ips) <= 8
              /\ ~octree[n].isLeaf => octree[n].ips = <<>>
        /\ \A i \in 1 .. Len(irradiancePoints) :
              Cardinality(StoredAt(i)) = (IF i \in InsertedSoFar THEN 1 ELSE 0)
        /\ \A i \in InsertedSoFar :
              \A <<n, k>> \in StoredAt(i) :
                  /\ Inside(NodeBound(n), irradiancePoints[i].p)
                  /\ \A d \in 1 .. Len(n) :
                        LET above == SubSeq(n, 1, d - 1)
                        IN /\ ~octree[above].isLeaf
                           /\ IsOctantOf(n[d], NodeBound(above),
                                         irradiancePoints[i].p)

\* ten points inserted: a full leaf on the third level, a point on a
\* midplane of its parent stored in the lower octant
C28_Witness ==
    /\ prePc = "insert"
    /\ Cardinality(InsertedSoFar) = 10
    /\ \E n \in ClusterNodes :
          /\ Len(n) = 2
          /\ octree[n].isLeaf
          /\ Len(octree[n].ips) = 8
          /\ \E k \in 1 .. 8, c \in 1 .. 3 :
                LET p == irradiancePoints[octree[n].ips[k]].p
                    b == NodeBound(<<n[1]>>)
                IN 2 * b.den * p[c] = b.pMin[c] + b.pMax[c]

\* the points stored anywhere in the tree
TreePoints == SubtreePoints(RootPath)

\* sum of the weighted positions wt[x] * q[x] over S, and the weighted mean
WeightedSum(wt, q, S) ==
    [k \in 1 .. 3 |-> FSum([x \in S |-> FMul(wt[x], q[x][k])], S)]

WeightedMean(wt, q, S) ==
    LET sum == WeightedSum(wt, q, S)
    IN [k \in 1 .. 3 |-> FDiv(sum[k], FSum(wt, S))]

\* what InitHierarchy sums at the node n: the points of a leaf, the
\* children of an interior node, with luminance and position
Covered(n) ==
    IF octree[n].isLeaf
    THEN LET S == 1 .. Len(octree[n].ips)
         IN [S |-> S,
             wt |-> [k \in S |-> F(irradiancePoints[octree[n].ips[k]].E)],
             q |-> [k \in S |-> FPoint(irradiancePoints[octree[n].ips[k]].p)]]
    ELSE LET S == octree[n].children
         IN [S |-> S,
             wt |-> [c \in S |-> octree[Append(n, c)].E],
             q |-> [c \in S |-> octree[Append(n, c)].p]]

\* C29: the cluster tree contains exactly the deposited points of luminance
\* > 0; so every node that covers a point has a positive weight sum in
\* InitHierarchy, and its centroid is the luminance-weighted mean of what it
\* covers, never the unnormalised sum.
C29_LitPointsOnly ==
    prePc = "returned" =>
        /\ TreePoints = InsertedPoints
        /\ \A n \in ClusterNodes :
              SubtreePoints(n) # {} =>
                  LET c == Covered(n)
                  IN /\ FPositive(FSum(c.wt, c.S))
                     /\ octree[n].p = WeightedMean(c.wt, c.q, c.S)

\* an unlit point was deposited; the tree has an interior node, and a leaf
\* whose centroid is not the plain weighted sum
C29_Witness ==
    /\ prePc = "returned"
    /\ \E i \in 1 .. Len(irradiancePoints) : irradiancePoints[i].E = 0
    /\ \E n, m \in ClusterNodes :
          /\ ~octree[n].isLeaf
          /\ octree[m].isLeaf
          /\ Len(octree[m].ips) > 1
          /\ LET c == Covered(m)
             IN octree[m].p # WeightedSum(c.wt, c.q, c.S)

(***************************************************************************)
(* PoissonPointTask::Run, candidate generation ray by ray                  *)
(***************************************************************************)
\* the paths of a batch that the model follows, of the 20000
nPaths == 2
\* "while (ray.depth < 30)"
MaxRayDepth == 30

\* a surface of the scene at p, with or without a BSSRDF
Surface(p, bssrdf) == [kind |-> "surface", p |-> p, bssrdf |-> bssrdf]
\* an intersection with the bounding sphere only, and none at all
OnSphere == [kind |-> "sphere", p |-> <<9, 9, 9>>, bssrdf |-> FALSE]
NoHit == [kind |-> "none", p |-> <<0, 0, 0>>, bssrdf |-> FALSE]

\* the scenes the paths are traced in: translucent and opaque surfaces
\* inside the sphere; the same with rays that miss everything; no BSSRDF
PathScenes ==
    {<<Surface(<<5, 0, 0>>, FALSE), Surface(<<0, 0, 0>>, TRUE), OnSphere,
       Surface(<<2, 0, 0>>, TRUE)>>,
     <<Surface(<<5, 0, 0>>, FALSE), OnSphere, Surface(<<0, 0, 0>>, TRUE),
       OnSphere, Surface(<<2, 0, 0>>, TRUE), Surface(<<5, 5, 0>>, FALSE),
       NoHit>>,
     <<Surface(<<5, 0, 0>>, FALSE), OnSphere, Surface(<<5, 5, 0>>, FALSE)>>}

\* the surface points with a BSSRDF
Translucent(geom) ==
    {geom[i].p : i \in {j \in 1 .. Len(geom) :
                           geom[j].kind = "surface" /\ geom[j].bssrdf}}

\* UniformSampleSphere(rng.RandomFloat(), rng.RandomFloat())
SampleDirection(u1, u2) == u1 + 3 * u2

\* scene->Intersect(ray, &isect), else sphere.Intersect(ray, &isect): the
\* index of what the ray finds
Intersect(geom, ray) == ((ray.at + ray.dir) % Len(geom)) + 1

\* the test that stores a candidate, without the test of the depth
StoresCandidateAtAnyDepth(hit, depth) == hit.kind = "surface" /\ hit.bssrdf

\* "!hitOnSphere && ray.depth >= 3 && isect.GetBSSRDF(...) != NULL"
StoresCandidate(hit, depth) ==
    hit.kind = "surface" /\ depth >= 3 /\ hit.bssrdf

\* "Vector dir = UniformSampleSphere(...); Ray ray(origin, dir, ...)"
StartPathStep(L) ==
    LET u1 == RandomFloat(L.rng)
        u2 == RandomFloat(u1)
    IN [L EXCEPT !.rng = u2, !.pathRays = 0,
                 !.ray = [depth |-> 0, at |-> 0, dir |-> SampleDirection(u1, u2)]]

\* one turn of "while (ray.depth < 30)", up to the test of the next turn;
\* L.cands are the candidates so far
TraceRayStep(geom, L) ==
    LET id == Intersect(geom, L.ray)
        hit == geom[id]
        u1 == RandomFloat(L.rng)
        u2 == RandomFloat(u1)
        depth == L.ray.depth + 1
    IN IF hit.kind = "none"
       THEN [L EXCEPT !.ray = NoRay, !.pathRays = @ + 1, !.pathsTraced = @ + 1]
       ELSE [L EXCEPT
                !.cands = IF StoresCandidate(hit, L.ray.depth)
                          THEN Append(@, NewPoint(hit.p)) ELSE @,
                !.rng = u2,
                !.pathRays = @ + 1,
                !.ray = IF depth < MaxRayDepth
                        THEN [depth |-> depth, at |-> id,
                              dir |-> SampleDirection(u1, u2)]
                        ELSE NoRay,
                !.pathsTraced = IF depth < MaxRayDepth THEN @ ELSE @ + 1]

\* the locals of task w, its candidates among them
Locals(w) ==
    [rng |-> trace[w].rng, ray |-> trace[w].ray,
     pathsTraced |-> trace[w].pathsTraced, pathRays |-> trace[w].pathRays,
     cands |-> candidates[w]]

SetLocals(w, L) ==
    /\ trace' = [trace EXCEPT ![w] = [rng |-> L.rng, ray |-> L.ray,
                                      pathsTraced |-> L.pathsTraced,
                                      pathRays |-> L.pathRays]]
    /\ candidates' = [candidates EXCEPT ![w] = L.cands]

\* a path that starts from a generator reseeded with a shared counter
StartPathReseeded(w) ==
    /\ Enqueued
    /\ pc[w] = "trace"
    /\ trace[w].ray = NoRay
    /\ trace[w].pathsTraced < nPaths
    /\ trace[w].pathsTraced = 0 => Len(batches[w]) < MaxBatches
    /\ SetLocals(w, StartPathStep([Locals(w) EXCEPT
                                      !.rng = (@ + numPointsAdded) % 17]))
    /\ UNCHANGED <<coreVars, cacheVars, sceneVars, prePc, mutex, pc,
                   candidateRejected, sharedVars, clusterVars, geometry, batches, indirect>>

\* the head of "for (pathsTraced = 0; pathsTraced < 20000; ++pathsTraced)"
StartPath(w) ==
    /\ Enqueued
    /\ pc[w] = "trace"
    /\ trace[w].ray = NoRay
    /\ trace[w].pathsTraced < nPaths
    /\ trace[w].pathsTraced = 0 => Len(batches[w]) < MaxBatches
    /\ SetLocals(w, StartPathStep(Locals(w)))
    /\ UNCHANGED <<coreVars, cacheVars, sceneVars, prePc, mutex, pc,
                   candidateRejected, sharedVars, clusterVars, geometry, batches, indirect>>

\* one ray of the path
TraceRay(w) ==
    /\ Enqueued
    /\ pc[w] = "trace"
    /\ trace[w].ray # NoRay
    /\ SetLocals(w, TraceRayStep(geometry, Locals(w)))
    /\ UNCHANGED <<coreVars, cacheVars, sceneVars, prePc, mutex, pc,
                   candidateRejected, sharedVars, clusterVars, geometry, batches, indirect>>

\* the paths of the batch are traced: on to the first pass
EndBatch(w) ==
    /\ Enqueued
    /\ pc[w] = "trace"
    /\ trace[w].ray = NoRay
    /\ trace[w].pathsTraced = nPaths
    /\ trace' = [trace EXCEPT ![w].pathsTraced = 0]
    /\ batches' = [batches EXCEPT ![w] = Append(@, candidates[w])]
    /\ pc' = [pc EXCEPT ![w] = "readPass"]
    /\ UNCHANGED <<coreVars, cacheVars, sceneVars, prePc, mutex, candidates,
                   candidateRejected, sharedVars, clusterVars, geometry, indirect>>

\* Run() with the candidates traced ray by ray
PathRun(w) ==
    \/ StartPath(w)
    \/ TraceRay(w)
    \/ EndBatch(w)
    \/ ReadPass(w)
    \/ UpgradeRelease(w)
    \/ UpgradeAcquire(w)
    \/ WritePass(w)
    \/ Unlock(w)

PathInit ==
    /\ geometry \in PathScenes
    /\ bssrdfSurface = Translucent(geometry)
    /\ nLights = 1
    /\ trace = [w \in Workers |-> NewTrace(w)]
    /\ batches = [w \in Workers |-> <<>>]
    /\ indirect = <<>>
    /\ DipoleIdle
    /\ CacheIdle
    /\ CoreIdle

PathNext == EnqueueTasks \/ \E w \in Workers : PathRun(w)

PathSpec == PathInit /\ [][PathNext]_vars

\* C30: in candidate generation every path traces at most 30 rays and then
\* ends, and a candidate is recorded only at an intersection with scene
\* geometry (never with the bounding sphere) reached by a ray of depth at
\* least 3 whose material exposes a BSSRDF.
C30_PathGeneration ==
    [][\A w \in Workers :
          /\ trace'[w].pathRays <= 30
          /\ trace'[w].pathRays = 30 => trace'[w].ray = NoRay
          /\ Len(candidates'[w]) > Len(candidates[w]) =>
                /\ trace[w].ray # NoRay
                /\ trace[w].ray.depth >= 3
                /\ LET hit == geometry[Intersect(geometry, trace[w].ray)]
                   IN /\ hit.kind = "surface"
                      /\ hit.bssrdf
                      /\ candidates'[w] = Append(candidates[w], NewPoint(hit.p))]_vars

\* the first path of a batch has ended with its 30th ray; some of its 27
\* rays of depth 3 or more have recorded a candidate and some have not
C30_Witness ==
    \E w \in Workers :
        /\ trace[w].pathsTraced = 1
        /\ trace[w].pathRays = 30
        /\ trace[w].ray = NoRay
        /\ Len(candidates[w]) \in 1 .. 26

RECURSIVE BatchFrom(_, _)
\* the locals of a task at the end of the path loop, from the locals L
BatchFrom(geom, L) ==
    IF L.pathsTraced = nPaths THEN L
    ELSE IF L.ray = NoRay THEN BatchFrom(geom, StartPathStep(L))
    ELSE BatchFrom(geom, TraceRayStep(geom, L))

RECURSIVE StreamAfter(_, _, _)
\* the locals of task w after its j-th batch when it runs alone
StreamAfter(geom, w, j) ==
    IF j = 0
    THEN [rng |-> Seed(w), ray |-> NoRay, pathsTraced |-> 0, pathRays |-> 0,
          cands |-> <<>>]
    ELSE BatchFrom(geom, [StreamAfter(geom, w, j - 1) EXCEPT
                             !.pathsTraced = 0, !.cands = <<>>])

\* C26: the candidates a PoissonPointTask generates are a function of its
\* task index alone: however the workers are interleaved and whatever the
\* shared octree and counters contain, the j-th batch of the task with
\* index k is the one the task produces when it runs alone.  (No batch is
\* produced at the start, and a batch once produced is never changed.)
C26_CandidateStream ==
    [][\A w \in Workers :
          batches'[w] # batches[w] =>
              batches'[w] =
                  Append(batches[w],
                         StreamAfter(geometry, w, Len(batches[w]) + 1).cands)]_vars

\* both tasks have produced a batch and the two first batches differ; one
\* task is past its second batch, which is not its first again; two of the
\* candidates have become irradiance points
C26_Witness ==
    /\ \A w \in Workers : batches[w] # <<>> /\ batches[w][1] # <<>>
    /\ batches[1][1] # batches[2][1]
    /\ \E w \in Workers : Len(batches[w]) >= 2 /\ batches[w][2] # batches[w][1]
    /\ Len(irradiancePoints) >= 2

(***************************************************************************)
(* IrradianceCacheIntegrator::pathL, one secondary path of a cache miss     *)
(***************************************************************************)
\* the turns of the path loop that the model follows
MaxPathLength == 6

\* values of "maxindirectdepth": FindOneInt hands on any int of the scene file
IndirectDepths == {-1, 0, 1, 2, 3, 5}

\* f * AbsDot(wi, n) / pdf of a sampled direction; 0 is "f.IsBlack() || pdf == 0."
BSDFSamples == {F(0), Frac(1, 2), F(1)}

\* sample->rng->RandomFloat() of the Russian roulette
RouletteDraws == {Frac(1, 4), Frac(3, 4)}

\* the integrator as constructed, no path being traced
NewIndirect(depth) ==
    [maxIndirectDepth |-> depth, pc |-> "idle", pathLength |-> 0,
     vertices |-> 0, specularBounce |-> FALSE, pathThroughput |-> F(1)]

\* "Spectrum L(0.f); Spectrum pathThroughput = 1.; ... pathLength = 0"
pathLBegin(L) ==
    [L EXCEPT !.pc = "loop", !.pathLength = 0, !.vertices = 0,
              !.specularBounce = FALSE, !.pathThroughput = F(1)]

\* one turn of "for (int pathLength = 0; ; ++pathLength)": the ray hits or
\* not, Sample_f gives f (with the cosine and the pdf) and the flags, u is
\* the draw of the roulette
pathLTurn(L, hit, f, specular, u) ==
    IF ~hit THEN [L EXCEPT !.pc = "returned"]
    ELSE
        LET V == [L EXCEPT !.vertices = @ + 1]
            T == FMul(V.pathThroughput, f)
            rrProb == FMin(F(1), T)
        IN IF V.pathLength + 1 = V.maxIndirectDepth
           THEN [V EXCEPT !.pc = "returned"]
           ELSE IF IsZero(f)
           THEN [V EXCEPT !.pc = "returned"]
           ELSE IF V.pathLength > 2 /\ FLess(rrProb, u)
           THEN [V EXCEPT !.pc = "returned", !.specularBounce = specular,
                          !.pathThroughput = T]
           ELSE [V EXCEPT !.specularBounce = specular,
                          !.pathThroughput =
                              IF V.pathLength > 2 THEN FDiv(T, rrProb) ELSE T,
                          !.pathLength = @ + 1]

\* indirectLo calls pathL for the next of its nSamples rays
PathLCall ==
    /\ indirect.pc \in {"idle", "returned"}
    /\ indirect' = pathLBegin(indirect)
    /\ UNCHANGED <<dipoleVars, cacheVars, coreVars, geometry, trace, batches>>

\* the path finds its next vertex, or ends
PathLVertex ==
    /\ indirect.pc = "loop"
    /\ indirect.pathLength < MaxPathLength
    /\ \E hit, specular \in BOOLEAN, f \in BSDFSamples, u \in RouletteDraws :
          indirect' = pathLTurn(indirect, hit, f, specular, u)
    /\ UNCHANGED <<dipoleVars, cacheVars, coreVars, geometry, trace, batches>>

IndirectInit ==
    /\ \E depth \in IndirectDepths : indirect = NewIndirect(depth)
    /\ geometry = <<>>
    /\ trace = [w \in Workers |-> NewTrace(w)]
    /\ batches = [w \in Workers |-> <<>>]
    /\ bssrdfSurface = {}
    /\ nLights = 0
    /\ DipoleIdle
    /\ CacheIdle
    /\ CoreIdle

IndirectNext == PathLCall \/ PathLVertex

IndirectSpec == IndirectInit /\ [][IndirectNext]_vars

\* C31: every secondary path traced by pathL ends after visiting at most
\* maxIndirectDepth path vertices, for every configured value of
\* maxIndirectDepth and every outcome of BSDF sampling and Russian roulette.
C31_IndirectDepthCap ==
    indirect.pc \in {"loop", "returned"} =>
        indirect.vertices <= indirect.maxIndirectDepth

(***************************************************************************)
(* Sample02 of core/montecarlo.h.  A u_int is its 32 bits, the most        *)
(* significant one first; a float in [0, 1] is the numerator of x / 2^32,  *)
(* as an overflow bit and 32 bits.                                         *)
(***************************************************************************)
\* the samples of one estimate that the model follows
MaxSamples == 8
\* the bits of a u_int
WordBits == 32
\* the bits of the significand of a float
FloatBits == 24

Bit == 1 .. WordBits

\* a u_int written as its eight hexadecimal digits, as 0x00ff00ff is
Hex(digits) ==
    [i \in Bit |-> (digits[((i - 1) \div 4) + 1] \div (2 ^ (3 - ((i - 1) % 4)))) % 2]

\* a u_int below 2^16 from its value
UInt(n) ==
    [i \in Bit |-> IF WordBits - i >= 16 THEN 0 ELSE (n \div (2 ^ (WordBits - i))) % 2]

BitXor(a, b) == [i \in Bit |-> (a[i] + b[i]) % 2]
BitOr(a, b) == [i \in Bit |-> IF a[i] + b[i] > 0 THEN 1 ELSE 0]
BitAnd(a, b) == [i \in Bit |-> a[i] * b[i]]
\* a << s and a >> s of a u_int
ShiftLeft(a, s) == [i \in Bit |-> IF i + s <= WordBits THEN a[i + s] ELSE 0]
ShiftRight(a, s) == [i \in Bit |-> IF i - s >= 1 THEN a[i - s] ELSE 0]

\* the exact quotient, with no rounding of the u_int
ToFloatExact(w) == [carry |-> 0, bits |-> w]

\* (float)n / (float)0x100000000LL: n is rounded to the nearest float, ties
\* to even; the division by a power of two is exact
ToFloat(w) ==
    LET ones == {i \in Bit : w[i] = 1}
        p == IF ones = {} THEN 0 ELSE CHOOSE i \in ones : \A j \in ones : i <= j
        last == p + FloatBits - 1
    IN IF p = 0 \/ last >= WordBits THEN [carry |-> 0, bits |-> w]
       ELSE
           LET sticky == \E i \in last + 2 .. WordBits : w[i] = 1
               up == w[last + 1] = 1 /\ (sticky \/ w[last] = 1)
               zeros == {i \in 1 .. last : w[i] = 0}
               z == IF zeros = {} THEN 0
                    ELSE CHOOSE i \in zeros : \A j \in zeros : j <= i
           IN IF ~up
              THEN [carry |-> 0,
                    bits |-> [i \in Bit |-> IF i <= last THEN w[i] ELSE 0]]
              ELSE [carry |-> IF z = 0 THEN 1 ELSE 0,
                    bits |-> [i \in Bit |-> IF i < z THEN w[i]
                                            ELSE IF i = z THEN 1 ELSE 0]]

\* the radical inverse by the five swaps of bit blocks, then the scramble
VanDerCorput(n, scramble) ==
    LET n1 == BitOr(ShiftLeft(n, 16), ShiftRight(n, 16))
        n2 == BitOr(ShiftLeft(BitAnd(n1, Hex(<<0, 0, 15, 15, 0, 0, 15, 15>>)), 8),
                    ShiftRight(BitAnd(n1, Hex(<<15, 15, 0, 0, 15, 15, 0, 0>>)), 8))
        n3 == BitOr(ShiftLeft(BitAnd(n2, Hex(<<0, 15, 0, 15, 0, 15, 0, 15>>)), 4),
                    ShiftRight(BitAnd(n2, Hex(<<15, 0, 15, 0, 15, 0, 15, 0>>)), 4))
        n4 == BitOr(ShiftLeft(BitAnd(n3, Hex(<<3, 3, 3, 3, 3, 3, 3, 3>>)), 2),
                    ShiftRight(BitAnd(n3, Hex(<<12, 12, 12, 12, 12, 12, 12, 12>>)), 2))
        n5 == BitOr(ShiftLeft(BitAnd(n4, Hex(<<5, 5, 5, 5, 5, 5, 5, 5>>)), 1),
                    ShiftRight(BitAnd(n4, Hex(<<10, 10, 10, 10, 10, 10, 10, 10>>)), 1))
    IN ToFloat(BitXor(n5, scramble))

RECURSIVE Sobol2Loop(_, _, _)
\* "for (u_int v = 1 << 31; n != 0; n >>= 1, v ^= v >> 1)"
Sobol2Loop(n, v, scramble) ==
    IF \A i \in Bit : n[i] = 0 THEN scramble
    ELSE Sobol2Loop(ShiftRight(n, 1), BitXor(v, ShiftRight(v, 1)),
                    IF n[WordBits] = 1 THEN BitXor(scramble, v) ELSE scramble)

Sobol2(n, scramble) ==
    ToFloat(Sobol2Loop(n, Hex(<<8, 0, 0, 0, 0, 0, 0, 0>>), scramble))

Sample02(n, scramble) ==
    <<VanDerCorput(n, scramble[1]), Sobol2(n, scramble[2])>>

\* values of sample->rng->RandomUInt()
Keys ==
    {Hex(<<0, 0, 0, 0, 0, 0, 0, 0>>), Hex(<<1, 2, 3, 4, 5, 6, 7, 8>>),
     Hex(<<8, 0, 0, 0, 0, 0, 0, 0>>), Hex(<<9, 14, 3, 7, 7, 9, 11, 9>>),
     Hex(<<7, 15, 15, 15, 15, 15, 15, 15>>), Hex(<<15, 15, 15, 15, 15, 15, 15, 15>>)}

\* "u_int scramble[2] = { sample->rng->RandomUInt(), ... }" of a cache miss
DrawScramble ==
    /\ \E a, b \in Keys : stream' = [scramble |-> <<a, b>>, points |-> <<>>]
    /\ UNCHANGED <<traceVars, dipoleVars, cacheVars, distribution, lastSample, shading>>

\* "Sample02(i, scramble, u)" for the next i
Sample02Call ==
    /\ Len(stream.points) < MaxSamples
    /\ stream' = [stream EXCEPT
                     !.points = Append(@, Sample02(UInt(Len(@)), stream.scramble))]
    /\ UNCHANGED <<traceVars, dipoleVars, cacheVars, distribution, lastSample, shading>>

StreamInit ==
    /\ \E a, b \in Keys : stream = [scramble |-> <<a, b>>, points |-> <<>>]
    /\ distribution = <<>>
    /\ lastSample = <<>>
    /\ shading = <<>>
    /\ bssrdfSurface = {}
    /\ nLights = 0
    /\ DipoleIdle
    /\ TraceIdle
    /\ CacheIdle

StreamNext == DrawScramble \/ Sample02Call

StreamSpec == StreamInit /\ [][StreamNext]_vars

\* the index of the interval of length 2^-a that holds x; 2^a when x is 1
Stratum(x, a) ==
    IF x.carry = 1 THEN 2 ^ a
    ELSE LET RECURSIVE Value(_)
             Value(i) == IF i = 0 THEN 0 ELSE 2 * Value(i - 1) + x.bits[i]
         IN Value(a)

\* the first 2^k points put exactly one point in every elementary rectangle
\* of size 2^-a by 2^-(k-a)
Stratified(points, k) ==
    \A a \in 0 .. k :
        \A i \in 0 .. 2 ^ a - 1, j \in 0 .. 2 ^ (k - a) - 1 :
            Cardinality({n \in 1 .. 2 ^ k :
                            /\ Stratum(points[n][1], a) = i
                            /\ Stratum(points[n][2], k - a) = j}) = 1

\* C32: for any fixed pair of 32-bit scramble keys and any k, the first 2^k
\* points of Sample02 are stratified: every elementary rectangle of size
\* 2^-a by 2^-(k-a), 0 <= a <= k, contains exactly one of them.
C32_Stratified ==
    \A k \in 0 .. MaxSamples :
        2 ^ k <= Len(stream.points) => Stratified(stream.points, k)

\* C33: once the shared repeatedFails has reached maxFails it never
\* decreases and no worker inserts another point: a worker that takes the
\* write lock afterwards returns without changing the octree,
\* irradiancePoints or a shared counter.  At all times
\* 0 <= repeatedFails <= maxFails and repeatedFails <= maxRepeatedFails, and
\* maxRepeatedFails never decreases.
C33_FailsLatch ==
    [][/\ 0 <= repeatedFails' /\ repeatedFails' <= maxFails
       /\ repeatedFails' <= maxRepeatedFails'
       /\ maxRepeatedFails <= maxRepeatedFails'
       /\ repeatedFails = maxFails =>
             /\ repeatedFails' = maxFails
             /\ Len(irradiancePoints') = Len(irradiancePoints)
             /\ UNCHANGED <<pointOctree, maxRepeatedFails, totalPathsTraced,
                            numPointsAdded>>
             /\ \A w \in Workers :
                   (pc[w] = "writePass" /\ pc'[w] # "writePass") =>
                       /\ pc'[w] = "return"
                       /\ irradiancePoints' = irradiancePoints
      ]_vars

\* a worker has run to its end on maxFails; another one has taken the
\* write lock after it and is returning
C33_Witness ==
    \E w, v \in Workers :
        /\ repeatedFails = maxFails
        /\ numPointsAdded > 0
        /\ pc[w] = "done"
        /\ pc[v] = "return" /\ mutex.writer = v

\* the state that the tasks share, but for the warning
SharedState ==
    <<pointOctree, irradiancePoints, repeatedFails, maxRepeatedFails,
      totalPathsTraced, numPointsAdded>>

\* C34: during point generation the state shared by the workers is written
\* only by a worker that holds the lock in write mode, and read only by a
\* worker that holds it in read or write mode (the first pass, whose result
\* is candidateRejected, and the second pass); candidate generation touches
\* none of it and holds no lock.
C34_LockDiscipline ==
    [][/\ SharedState' # SharedState =>
             \E w \in Workers :
                 /\ mutex.writer = w /\ mutex.readers = {}
                 /\ mutex' = mutex
                 /\ pc[w] = "writePass"
       /\ \A w \in Workers :
             /\ (candidateRejected'[w] # candidateRejected[w]
                    /\ candidates'[w] = candidates[w]) =>
                   /\ w \in mutex'.readers
                   /\ mutex'.writer = NoTask
                   /\ candidateRejected'[w] =
                          [k \in 1 .. Len(candidates[w]) |->
                              CheckFailed(pointOctree, candidates[w][k].p)]
             /\ (pc[w] = "trace" /\ <<trace[w], candidates[w], pc[w]>>
                                      # <<trace'[w], candidates'[w], pc'[w]>>) =>
                   /\ SharedState' = SharedState
                   /\ mutex' = mutex
                   /\ w \notin mutex.readers /\ mutex.writer # w
      ]_vars

\* a worker that holds the write lock has inserted a point while another
\* one is in the middle of a path and has candidates of its own
C34_Witness ==
    \E w, v \in Workers :
        /\ mutex.writer = w
        /\ pc[w] \in {"return", "endLoop"}
        /\ numPointsAdded > 0
        /\ pc[v] = "trace"
        /\ trace[v].ray # NoRay
        /\ candidates[v] # <<>>

(***************************************************************************)
(* What Mo adds up: the contributions it reports to the probes              *)
(* PBRT_SUBSURFACE_ADDED_INTERIOR_CONTRIBUTION(this) and                    *)
(* PBRT_SUBSURFACE_ADDED_POINT_CONTRIBUTION(ips[i]), in order               *)
(***************************************************************************)
\* the loop over the points of a leaf, stopping one slot short
LeafProbesBySeven(ips, k) ==
    [j \in 1 .. (IF Len(ips) > 7 THEN 7 ELSE Len(ips)) - k + 1 |->
        [kind |-> "point", ip |-> ips[j + k - 1], node |-> <<>>]]

\* "for (int i = 0; i < 8; ++i) { if (!ips[i]) break; ... }"
LeafProbes(ips, k) ==
    [j \in 1 .. Len(ips) - k + 1 |->
        [kind |-> "point", ip |-> ips[j + k - 1], node |-> <<>>]]

RECURSIVE MoProbes(_, _, _, _, _)
RECURSIVE ChildrenProbes(_, _, _, _, _, _)
ChildrenProbes(tree, path, nodeBound, k, pt, maxError) ==
    IF k > 7 THEN <<>>
    ELSE IF k \notin tree[path].children
    THEN ChildrenProbes(tree, path, nodeBound, k + 1, pt, maxError)
    ELSE MoProbes(tree, Append(path, k), octreeChildBound(k, nodeBound), pt,
                  maxError)
         \o ChildrenProbes(tree, path, nodeBound, k + 1, pt, maxError)

MoProbes(tree, path, nodeBound, pt, maxError) ==
    LET node == tree[path]
        d2 == FDistanceSquared(FPoint(pt), node.p)
        dw == FDiv(node.sumArea, d2)
    IN IF FLess(dw, maxError) /\ ~Inside(nodeBound, pt)
       THEN <<[kind |-> "interior", ip |-> 0, node |-> path]>>
       ELSE IF node.isLeaf THEN LeafProbes(node.ips, 1)
       ELSE ChildrenProbes(tree, path, nodeBound, 0, pt, maxError)

\* the value that a contribution adds to Mo
Contribution(probe, pt) ==
    IF probe.kind = "interior" THEN Aggregate(probe.node, pt)
    ELSE LeafMo(<<probe.ip>>, 1, pt, irradiancePoints)

RECURSIVE ContributionSum(_, _, _)
ContributionSum(probes, k, pt) ==
    IF k > Len(probes) THEN F(0)
    ELSE FAdd(Contribution(probes[k], pt), ContributionSum(probes, k + 1, pt))

\* the stored points that a contribution stands for
Accounted(probe) ==
    IF probe.kind = "interior" THEN SubtreePoints(probe.node) ELSE {probe.ip}

\* C35: in every Mo evaluation, for any maxError and any query point, each
\* point stored in the hierarchy is accounted for exactly once: either
\* individually in its leaf or through exactly one node whose aggregate was
\* accepted; none is both summed individually and covered by an accepted
\* cluster, and none is skipped.  (The contributions are those that make up
\* the value of Mo.)
C35_AccountedOnce ==
    prePc = "returned" =>
        \A pt \in QueryPoints, maxError \in MaxErrors :
            LET probes == MoProbes(octree, RootPath, octreeBounds, pt, maxError)
            IN /\ \A i \in TreePoints :
                     Cardinality({k \in 1 .. Len(probes) :
                                     i \in Accounted(probes[k])}) = 1
               /\ \A k \in 1 .. Len(probes) : Accounted(probes[k]) \subseteq TreePoints
               /\ ContributionSum(probes, 1, pt) =
                      Mo(octree, RootPath, octreeBounds, pt, maxError,
                         irradiancePoints)

\* one evaluation takes a cluster of several points below the root as a
\* whole; one takes a node below the root as a whole and sums other points
\* one by one
C35_Witness ==
    /\ prePc = "returned"
    /\ \E pt \in QueryPoints, maxError \in MaxErrors :
          LET probes == MoProbes(octree, RootPath, octreeBounds, pt, maxError)
          IN \E k \in 1 .. Len(probes) :
                 /\ probes[k].kind = "interior"
                 /\ probes[k].node # RootPath
                 /\ Cardinality(Accounted(probes[k])) > 1
    /\ \E pt \in QueryPoints, maxError \in MaxErrors :
          LET probes == MoProbes(octree, RootPath, octreeBounds, pt, maxError)
          IN /\ \E k \in 1 .. Len(probes) :
                    probes[k].kind = "interior" /\ probes[k].node # RootPath
             /\ \E k \in 1 .. Len(probes) : probes[k].kind = "point"

\* the square of the diagonal of a box, times the square of its denominator
DiagonalSquared(b) ==
    (b.pMax[1] - b.pMin[1]) * (b.pMax[1] - b.pMin[1])
        + (b.pMax[2] - b.pMin[2]) * (b.pMax[2] - b.pMin[2])
        + (b.pMax[3] - b.pMin[3]) * (b.pMax[3] - b.pMin[3])

\* a box that has room for two points minSampleDist apart
HasRoom(b) == DiagonalSquared(b) >= minSampleDist * minSampleDist * b.den * b.den

\* the levels of the octree whose boxes have room: each level halves the box
SplitBound ==
    Cardinality({k \in 0 .. 12 :
                    DiagonalSquared(octreeBounds) >=
                        minSampleDist * minSampleDist * (4 ^ k)})

\* the interior nodes of a tree
Interior(tree) == {n \in DOMAIN tree : ~tree[n].isLeaf}

\* C36: building the cluster tree terminates: for the point sets Preprocess
\* produces (pairwise distance at least minSampleDist inside octreeBounds)
\* every Insert call returns after a bounded number of recursive splits,
\* including the split of a full leaf whose 9 points all fall into the same
\* octant: a call splits only full leaves that receive a ninth point, whose
\* boxes have room for two points, and so at most one node per level that
\* has room.
C36_InsertTerminates ==
    [][(prePc = "insert" /\ loopIndex' = loopIndex + 1) =>
          LET split == Interior(octree') \ Interior(octree)
          IN /\ Cardinality(split) <= SplitBound
             /\ \A n \in split :
                   /\ HasRoom(NodeBound(n))
                   /\ Cardinality(UNION {{octree'[m].ips[k] :
                                            k \in 1 .. Len(octree'[m].ips)} :
                                         m \in {x \in DOMAIN octree' :
                                                   IsPrefix(n, x)}}) >= 9
                   /\ \A m \in split : Len(m) = Len(n) => m = n
             /\ DOMAIN octree \subseteq DOMAIN octree'
      ]_vars

\* the root has been split and all its nine points fell into one octant,
\* which was split in the same call
C36_Witness ==
    /\ prePc = "insert"
    /\ Interior(octree) = {RootPath, <<0>>}
    /\ Cardinality(TreePoints) = 9

(***************************************************************************)
(* The irradiance cache under a fair scheduler and a fair lock              *)
(***************************************************************************)
\* thread t, inside interpolateE or indirectLo and not waiting for the
\* lock, takes its next step: Lookup, FinishInterpolate, ComputeSample,
\* AddBegin or AddEnd, seen as the move of cpc[t] alone
Proceeds(t) ==
    /\ cpc[t] \in {"lookup", "interpolated", "compute", "add", "adding"}
    /\ \E next \in {"interpolated", "idle", "compute", "lockWrite", "adding"} :
          cpc' = [cpc EXCEPT ![t] = next]

\* a thread inside a call goes on, and a thread that asks for the lock again
\* and again while it can be had gets it
CacheFairSpec ==
    /\ CacheSpec
    /\ \A t \in Threads :
          /\ WF_cpc(Proceeds(t))
          /\ SF_vars(LockRead(t))
          /\ SF_vars(LockWrite(t))

\* where a thread may hold the lock of the cache, and where not
LockHeldOnlyInside(t) ==
    /\ cpc[t] \in {"idle", "interpolateE", "compute", "lockWrite"} =>
          t \notin cacheMutex.readers /\ cacheMutex.writer # t
    /\ t \in cacheMutex.readers => cpc[t] \in {"lookup", "interpolated"}
    /\ cacheMutex.writer = t => cpc[t] \in {"add", "adding"}

\* C37: in the irradiance cache no thread requests the cache lock while it
\* already holds it, and no thread holds the lock while tracing rays: the
\* read lock is released when interpolateE returns, before the miss
\* computation, and the write lock is taken only around Add.  Hence, with a
\* fair lock, every query issued by any of the concurrent threads completes.
C37_QueriesComplete ==
    /\ [](\A t \in Threads : LockHeldOnlyInside(t))
    /\ \A t \in Threads : (cpc[t] # "idle") ~> (cpc[t] = "idle")

\* a thread that missed the cache waits for the write lock while another
\* thread reads the cache
C37_Witness ==
    \E t, u \in Threads :
        /\ cpc[t] = "lockWrite"
        /\ u \in cacheMutex.readers
        /\ cpc[u] = "lookup"

(***************************************************************************)
(* The weight sum of a successful interpolation                            *)
(***************************************************************************)
\* the values FindOneFloat("minweight", 0.5f) can hand to the constructor:
\* the default .5f, .25f, 0 and -.5f
ConfiguredMinWeights == {Frac(1, 2), Frac(1, 4), F(0), Frac(-1, 2)}

\* CreateIrradianceCacheIntegrator with one of the configured minweight
\* values, after Preprocess: the empty cache before the calls of WideQueries
WeightInit ==
    /\ bssrdfSurface = {}
    /\ nLights = 0
    /\ DipoleIdle
    /\ CoreIdle
    /\ TraceIdle
    /\ cacheMutex = FreeMutex
    /\ cache = <<>>
    /\ destroyed = FALSE
    /\ cpc = [t \in Threads |-> "idle"]
    /\ query = [t \in Threads |-> NoLocal]
    /\ proc = [t \in Threads |-> NoLocal]
    /\ sample = [t \in Threads |-> NoLocal]
    /\ slot = [t \in Threads |-> 0]
    /\ queryId = [t \in Threads |-> 0]
    /\ issued = [q \in DOMAIN WideQueries |-> 0]
    /\ missed = [q \in DOMAIN WideQueries |-> 0]
    /\ torn = FALSE
    /\ minWeight \in ConfiguredMinWeights
    /\ primePc = "returned"
    /\ primeTasks = <<>>
    /\ primeThread = [t \in Threads |-> 0]
    /\ weightBefore = minWeight
    /\ OctreeIdle

WeightSpec == WeightInit /\ [][WideNext]_vars

\* C38: whenever interpolateE reports success the weight sum of its
\* IrradProcess is above 0 and the quotient E / sumWt of GetIrradiance is a
\* number, for every configured minWeight and every content of the cache,
\* the empty cache included.
C38_PositiveWeightSum ==
    \A t \in Threads :
        (cpc[t] = "interpolated" /\ Successful(proc[t])) =>
            /\ FPositive(proc[t].sumWt)
            /\ ~IsNaN(GetIrradiance(proc[t]))

(***************************************************************************)
(* DipoleSubsurfaceIntegrator::Li                                          *)
(***************************************************************************)
\* the hits that Li is called with: the shading point, whether
\* isect.GetBSSRDF returns a BSSRDF, and whether sigma_a + sigma'_s is black
LiHits ==
    {[p |-> p, bssrdf |-> b, black |-> k] :
        p \in QueryPoints, b \in BOOLEAN, k \in BOOLEAN}

\* "if (bssrdf) { ... if (!sigmap_t.IsBlack()) {": Li goes on to octree->Mo
EvaluatesMo(hit) == hit.bssrdf /\ ~hit.black

\* what "octree->Mo(...)" does with the null pointer that octree is as long
\* as Preprocess has not allocated the root: a fault, or any value
NullOutcomes == {[k |-> "fault", n |-> 0, d |-> 1], F(0), NaN}

\* "Spectrum Mo = octree->Mo(octreeBounds, p, Rd, maxError)"
Li ==
    /\ prePc = "returned"
    /\ \E hit \in LiHits, maxError \in MaxErrors :
          /\ hit.bssrdf => bssrdfSurface # {}
          /\ \E out \in (IF ~EvaluatesMo(hit) THEN {F(0)}
                         ELSE IF octree = NullTree THEN NullOutcomes
                         ELSE {Mo(octree, RootPath, octreeBounds, hit.p,
                                  maxError, irradiancePoints)}) :
                shading' = [hit |-> hit, maxError |-> maxError,
                            evaluated |-> EvaluatesMo(hit),
                            built |-> (octree # NullTree /\ loopIndex > Len(irradiancePoints)),
                            Mo |-> out]
    /\ UNCHANGED <<traceVars, dipoleVars, cacheVars, distribution, lastSample, stream>>

\* a scene with no lights before Preprocess, or a scene with lights whose
\* tasks have returned and whose irradiance loop has ended
ShadingInit ==
    \/ /\ bssrdfSurface \in Scenes
       /\ nLights = 0
       /\ DipoleIdle
       /\ CacheIdle
       /\ CoreIdle
       /\ TraceIdle
    \/ ClusterInit

ShadingNext == EnqueueTasks \/ ClusterNext \/ Li

ShadingSpec == ShadingInit /\ [][ShadingNext]_vars

\* C39: every call of Li that evaluates Mo for a hit with a BSSRDF does so
\* on a cluster hierarchy that Preprocess has allocated, filled and
\* initialised, in every scene, a scene with no lights included.
C39_MoOnBuiltHierarchy ==
    (shading # <<>> /\ shading.evaluated) =>
        shading.built

====
